---- MODULE Spec2Model ----
\* LogHunter: the asynchronous analysis-job lifecycle.
\*   internal/ai/service.go      TriggerAnalysis, runAnalysis
\*   store (PostgresStore)       CreateJob, UpdateJobStatus, CreateAnalysisResult
\*   cache (RedisCache)          SetJobStatus
\*   store (PostgresStore)       GetJob, GetAnalysisResultBy*, UpsertErrorCluster
\*   handler                     pollJobHandler
\*   middleware                  RateLimit.Limit over cache.IncrWithExpiry
\* The specifications, all over the same state:
\*   Spec         the server: trigger requests and their background tasks;
\*   StoreSpec    the Store interface under concurrent clients (CreateJob,
\*                UpdateJobStatus, CreateAnalysisResult), one call per step
\*                of the statements it sends to the database;
\*   ReadSpec     the store's read operations called for any tenant while
\*                one client writes the tables;
\*   PollSpec     GET /analyze/{jobID} while one client writes the tables;
\*   ClusterSpec  UpsertErrorCluster calls;
\*   LimitSpec    the rate limiter serving authenticated requests.
EXTENDS Integers, Sequences, FiniteSets, TLC

\* ---------------------------------------------------------------- bounds
MaxJobs == 1            \* trigger requests (each creates at most one job)
MaxClients == 2         \* concurrent clients of the store in StoreSpec
MaxClientCalls == 3     \* calls made by those clients in total
MaxUpserts == 2         \* UpsertErrorCluster calls
MaxCount == 2           \* largest count contributed by one upsert
MaxTime == 2            \* instants at which log lines are seen
RequestsPerMin == 2     \* the limit the rate limiter is configured with
MaxRequests == 3        \* requests served by the rate limiter
MaxClock == 4           \* clock readings, in units of 20 seconds
MaxKeyOps == 3          \* CreateAPIKey and RevokeAPIKey calls
MaxOps == 4             \* those calls and the authenticated requests together
MaxTail == 3            \* bytes of a provider's text after its ASCII padding
MaxConf == 3            \* largest magnitude of a confidence, in halves
MaxPieces == 2          \* pieces of a fingerprinted message
MaxLines == 3           \* log lines of a clustered batch

JobIds == 1..MaxJobs
Clients == 1..MaxClients
Callers == ({"task"} \X JobIds) \cup ({"client"} \X Clients)

\* ------------------------------------------------------------- constants
JobStatusPending == "pending"
JobStatusRunning == "running"
JobStatusCompleted == "completed"
JobStatusFailed == "failed"
Statuses == {JobStatusPending, JobStatusRunning, JobStatusCompleted, JobStatusFailed}

NULL == "NULL"          \* SQL NULL / Go nil pointer of a scalar column
NoMessage == <<>>       \* nil *string; a message is a non-empty token sequence
ClusterId == "c1"       \* the identifier of the analysed cluster
NilUUID == "nil"        \* uuid.Nil
Tenants == {"t1", "t2"} \* rows of table tenants
ClusterTenant == "t1"   \* cluster.TenantID of the analysed cluster

ErrLokiUnreachable == "loki unreachable"
ErrProviderUnavailable == "ai provider unavailable"
ErrCreateResult == "create analysis result: db error"
PanicValue == "simulated panic"

\* jobUpdateParams
NoOpts == [ErrorMessage |-> NoMessage, ClusterID |-> NULL]
WithErrorMessage(msg) == [ErrorMessage |-> msg, ClusterID |-> NULL]
WithClusterID(id) == [ErrorMessage |-> NoMessage, ClusterID |-> id]

\* strings.HasPrefix on token sequences
HasPrefix(msg, p) == Len(msg) > 0 /\ msg[1] = p

VARIABLES
  jobs,        \* table jobs: function from the ids of the existing rows to rows
  results,     \* table analysis_results: set of rows
  cache,       \* cache entries job:<id>: status, or "none" when absent
  rpc,         \* position of each TriggerAnalysis call
  reqCtx,      \* context of each triggering request: "live" or "cancelled"
  rret,        \* value returned by each TriggerAnalysis call
  tpc,         \* position of each runAnalysis goroutine
  upd,         \* UpdateJobStatus call in progress of each caller
  lastCall,    \* the UpdateJobStatus call (or a client's CreateAnalysisResult
               \* call) that returned last, with its result
  panicked,    \* a panic was raised in the goroutine and recovered
  statusLog,   \* history: the successive stored statuses of each job
  cacheLog,    \* history: the values successfully written to each cache entry
  storeRet,    \* history: statuses whose store update has returned in the task
  mirror,      \* history: outcome of the trigger call's cache write
  allOk,       \* history: every collaborator call of the task succeeded so far
  terminalOk,  \* history: successful updates from running to a terminal status
  ncalls,      \* number of calls made by the other store clients
  outcome,     \* history: outcome of each collaborator call of the task
  poll,        \* the poll request (GET /analyze/{jobID}) being served
  resp,        \* the last poll request answered, with its response
  reply,       \* the last store read made directly, with what it returned
  clusters,    \* table error_clusters: set of rows
  contrib,     \* history: what the upserts contributed under each unique key
  lastUpsert,  \* the UpsertErrorCluster call that returned last, with its result
  nups,        \* number of UpsertErrorCluster calls made
  counters,    \* cache entries ratelimit:<prefix>: the count, 0 when absent
  seen,        \* history: requests of each credential since its counter expired
  lastLimit,   \* the request the rate limiter served last, with its response
  nreq,        \* number of requests served by the rate limiter
  now,         \* the clock, in units of 20 seconds
  expiry,      \* the time at which each ratelimit:<prefix> entry expires
  stamps,      \* history: the times of the requests each credential made
               \* in the last minute
  incrLog,     \* history: the IncrWithExpiry calls on each entry since it
               \* last expired, with what they returned
  answered,    \* history: the status of the last answer the rate limiter
               \* gave each credential, and its time
  apiKeys,     \* table api_keys: set of rows
  lastReq,     \* the request the router served, with its response, when
               \* no credential operation was made since
  lastKeyOp,   \* the CreateAPIKey or RevokeAPIKey call that returned, when
               \* no request was served since
  revokedOk,   \* history: ids for which RevokeAPIKey returned nil
  nkeyops,     \* number of CreateAPIKey and RevokeAPIKey calls made
  lastResult,  \* what the provider returned to the analysis task that ran
               \* last, what the task handed to CreateAnalysisResult, and
               \* the content of the rows that call inserted
  lastNorm,    \* the two log messages fingerprinted last, with their
               \* normalized forms and fingerprints
  lastBatch,   \* the batch of log lines clustered last, with the sequence
               \* of clusters returned for it
  lastLoki     \* the call made last on the log backend client: what the
               \* backend did, the request sent and what the call returned

vars == <<jobs, results, cache, rpc, reqCtx, rret, tpc, upd, lastCall, panicked,
          statusLog, cacheLog, storeRet, mirror, allOk, terminalOk, ncalls,
          outcome, poll, resp, reply, clusters, contrib, lastUpsert, nups,
          counters, seen, lastLimit, nreq, now, expiry, stamps, incrLog, answered,
          apiKeys, lastReq, lastKeyOp, revokedOk, nkeyops, lastResult,
          lastNorm,
  lastBatch, lastLoki>>

\* the rate limiter
rvars == <<counters, seen, lastLimit, nreq, now, expiry, stamps, incrLog,
           answered>>

\* the credentials and the requests served through the middleware chain
avars == <<apiKeys, lastReq, lastKeyOp, revokedOk, nkeyops>>

\* the cluster table and its bookkeeping
cvars == <<clusters, contrib, lastUpsert, nups>>

\* what the job lifecycle leaves alone: the readers, the cluster table, the
\* rate limiter and the credentials
ext == <<poll, resp, reply, cvars, rvars, avars, lastResult, lastNorm,
  lastBatch, lastLoki>>

hist == <<statusLog, cacheLog, storeRet, mirror, allOk, terminalOk, outcome>>

IdleCall == [phase |-> "idle", id |-> 0, status |-> "none", cur |-> "none",
             ret |-> "none", opts |-> NoOpts]
NoCall == [caller |-> <<"none", 0>>, id |-> 0, status |-> "none", cur |-> "none",
           ret |-> "none"]
NoReturn == [ok |-> FALSE, id |-> 0, status |-> "none"]
\* the unique key (tenant_id, service, namespace, fingerprint) of a cluster;
\* one service and one namespace are used
Service == "api-server"
Namespace == "default"
Fingerprints == {"fp-merge"}
ClusterKeys == Tenants \X Fingerprints
NoContribution == [n |-> 0, id |-> 0, count |-> 0, first_seen_at |-> 0,
                   last_seen_at |-> 0, levels |-> {}]
NoUpsert == [db |-> "none", valid |-> FALSE, key |-> <<"none", "none">>,
             err |-> "none", row |-> NULL]
keyPrefixLen == 8

\* raw keys are strings, modelled as sequences of characters
lh_test1 == <<"l", "h", "_", "t", "e", "s", "t", "1">>
lh_over1 == <<"l", "h", "_", "o", "v", "e", "r", "1">>

\* the raw keys that are issued as credentials; two of them begin with the
\* same 8 characters
Creds == {lh_test1 \o <<"a">>, lh_test1 \o <<"b">>, lh_over1 \o <<"c">>}

\* prefix := rawKey[:keyPrefixLen]
KeyPrefix(rawKey) == SubSeq(rawKey, 1, keyPrefixLen)

Prefixes == {KeyPrefix(rawKey) : rawKey \in Creds}

NoHeaders == [h \in {} |-> <<>>]

NoLimit == [cred |-> <<"none", "none">>, k |-> 0, incr |-> "none", status |-> 0,
            headers |-> NoHeaders, handler |-> FALSE, at |-> 0]
\* the Authorization header: its scheme and what follows the first space;
\* both are empty when the header is absent
NoAuthHeader == [scheme |-> "", token |-> <<>>]
NoRequest == [header |-> NoAuthHeader, route |-> "none", lookup |-> "none",
              status |-> 0, code |-> "none", limiter |-> FALSE,
              handler |-> FALSE, key |-> 0]
NoKeyOp == [op |-> "none", id |-> 0, tenant |-> "none", name |-> "none",
            db |-> "none", err |-> "none"]
\* a string is a sequence of bytes: pad ASCII bytes followed by the bytes of
\* tail, each an ASCII byte "a", the lead byte of a 2, 3 or 4 byte character
\* "L2", "L3", "L4", or a continuation byte "c"
EmptyString == [pad |-> 0, tail |-> <<>>]
\* a float64: NaN, or the number v / 2
Float(v) == [nan |-> FALSE, v |-> v]
NaN == [nan |-> TRUE, v |-> 0]
NoContent == [confidence |-> Float(0), root_cause |-> EmptyString,
              summary |-> EmptyString]
NoAnalysis == [provided |-> NoContent, prepared |-> NoContent, db |-> "none",
               err |-> "none", rows |-> {}]
IdlePoll == [pc |-> "idle", tenant |-> "none", id |-> 0, status |-> "none"]
NoResponse == [tenant |-> "none", id |-> 0, out |-> [code |-> 0]]
NoReply == [op |-> "none", caller |-> "none", err |-> "none", row |-> NULL]
NoOutcome == [query_range |-> "none", analyze |-> "none", create_result |-> "none"]
NoMessages == [xs |-> <<>>, ys |-> <<>>, x |-> <<>>, y |-> <<>>, nx |-> <<>>,
               nnx |-> <<>>, fx |-> <<>>, fy |-> <<>>, groups |-> 0]
NoAnswer == [status |-> 0, at |-> 0]
NoLokiCall == [op |-> "none", env |-> <<>>, sent |-> <<>>, err |-> <<>>]
NoBatch == [lines |-> <<>>, clusters |-> <<>>, made |-> FALSE]

\* the rate limiter before any request
InitLimiter ==
  /\ counters = [p \in Prefixes |-> 0]
  /\ seen = [rawKey \in Creds |-> 0]
  /\ lastLimit = NoLimit
  /\ nreq = 0
  /\ now = 0
  /\ expiry = [p \in Prefixes |-> 0]
  /\ stamps = [rawKey \in Creds |-> <<>>]
  /\ incrLog = [p \in Prefixes |-> <<>>]
  /\ answered = [rawKey \in Creds |-> NoAnswer]

\* everything but the rate limiter
InitRest ==
  /\ jobs = [j \in {} |-> 0]
  /\ results = {}
  /\ cache = [j \in JobIds |-> "none"]
  /\ rpc = [r \in JobIds |-> "idle"]
  /\ reqCtx = [r \in JobIds |-> "live"]
  /\ rret = [r \in JobIds |-> NoReturn]
  /\ tpc = [j \in JobIds |-> "idle"]
  /\ upd = [c \in Callers |-> IdleCall]
  /\ lastCall = NoCall
  /\ panicked = [j \in JobIds |-> FALSE]
  /\ statusLog = [j \in JobIds |-> <<>>]
  /\ cacheLog = [j \in JobIds |-> <<>>]
  /\ storeRet = [j \in JobIds |-> {}]
  /\ mirror = [r \in JobIds |-> "none"]
  /\ allOk = [j \in JobIds |-> TRUE]
  /\ terminalOk = [j \in JobIds |-> 0]
  /\ ncalls = 0
  /\ outcome = [j \in JobIds |-> NoOutcome]
  /\ poll = IdlePoll
  /\ resp = NoResponse
  /\ reply = NoReply
  /\ clusters = {}
  /\ contrib = [k \in ClusterKeys |-> NoContribution]
  /\ lastUpsert = NoUpsert
  /\ nups = 0
  /\ apiKeys = {}
  /\ lastReq = NoRequest
  /\ lastKeyOp = NoKeyOp
  /\ revokedOk = {}
  /\ nkeyops = 0
  /\ lastResult = NoAnalysis
  /\ lastNorm = NoMessages
  /\ lastBatch = NoBatch
  /\ lastLoki = NoLokiCall

Init == InitRest /\ InitLimiter

\* ------------------------------------------------------------ the store

\* validTransitions: map[string][]string
validTransitions ==
  (JobStatusPending :> {JobStatusRunning}) @@
  (JobStatusRunning :> {JobStatusCompleted, JobStatusFailed})

\* the validation loop of UpdateJobStatus; a missing map key yields no entries
ValidTransition_anyFromPending(currentStatus, status) ==
  \/ currentStatus = JobStatusPending /\ status # JobStatusPending
  \/ currentStatus = JobStatusRunning /\ status \in {JobStatusCompleted, JobStatusFailed}

ValidTransition(currentStatus, status) ==
  /\ currentStatus \in DOMAIN validTransitions
  /\ status \in validTransitions[currentStatus]

\* the row written by INSERT INTO jobs (CreateJob): the optional columns NULL
NewJobRow(tenantID, status, clusterID) ==
  [tenant_id |-> tenantID, status |-> status, cluster_id |-> clusterID,
   error_message |-> NoMessage, started_at |-> NULL, completed_at |-> NULL]

\* INSERT INTO jobs: the table after CreateJob(id, row) succeeded
InsertJob(id, row) == [j \in DOMAIN jobs \cup {id} |-> IF j = id THEN row ELSE jobs[j]]

\* the UPDATE statement assembled by UpdateJobStatus
UpdatedRow_noCompletedAtOnFailed(row, status, opts) ==
  [row EXCEPT
     !.status = status,
     !.started_at = IF status = "running" THEN "now" ELSE @,
     !.completed_at = IF status = "completed" THEN "now" ELSE @,
     !.error_message = IF opts.ErrorMessage # NoMessage THEN opts.ErrorMessage ELSE @,
     !.cluster_id = IF opts.ClusterID # NULL THEN opts.ClusterID ELSE @]

UpdatedRow(row, status, opts) ==
  [row EXCEPT
     !.status = status,
     !.started_at = IF status = "running" THEN "now" ELSE @,
     !.completed_at = IF status = "completed" \/ status = "failed" THEN "now" ELSE @,
     !.error_message = IF opts.ErrorMessage # NoMessage THEN opts.ErrorMessage ELSE @,
     !.cluster_id = IF opts.ClusterID # NULL THEN opts.ClusterID ELSE @]

\* UpdateJobStatus up to and including the validation: the SELECT of the
\* current status (db = "err": the query fails) and the transition check.
\* The result is the caller's call record: returned, or about to run the UPDATE.
SelectCall(id, status, opts, db) ==
  LET call == [phase |-> "idle", id |-> id, status |-> status, cur |-> "none",
               ret |-> "none", opts |-> opts] IN
  IF db = "err" THEN [call EXCEPT !.ret = "db_error"]
  ELSE IF id \notin DOMAIN jobs THEN [call EXCEPT !.ret = "not_found"]
  ELSE LET currentStatus == jobs[id].status IN
       IF ~ValidTransition(currentStatus, status)
       THEN [call EXCEPT !.cur = currentStatus, !.ret = "invalid"]
       ELSE [call EXCEPT !.cur = currentStatus, !.phase = "exec"]

\* the UPDATE ... WHERE id = $1 of UpdateJobStatus (no condition on status)
ExecJobs(call, db) ==
  IF db = "ok" /\ call.id \in DOMAIN jobs
  THEN [jobs EXCEPT ![call.id] = UpdatedRow(@, call.status, call.opts)]
  ELSE jobs

ExecStatusLog(call, db) ==
  IF db = "ok" /\ call.id \in DOMAIN jobs
  THEN [statusLog EXCEPT ![call.id] = Append(@, call.status)]
  ELSE statusLog

ExecTerminalOk(call, db) ==
  IF db = "ok" /\ call.cur = JobStatusRunning
     /\ call.status \in {JobStatusCompleted, JobStatusFailed}
  THEN [terminalOk EXCEPT ![call.id] = @ + 1]
  ELSE terminalOk

\* the record of a call of caller c that returned ret
Returned(c, call, ret) ==
  [caller |-> c, id |-> call.id, status |-> call.status, cur |-> call.cur, ret |-> ret]

\* the caller's state and the last returned call after the SELECT step
AfterSelect(c, call) ==
  IF call.phase = "exec"
  THEN upd' = [upd EXCEPT ![c] = call] /\ lastCall' = lastCall
  ELSE upd' = [upd EXCEPT ![c] = IdleCall] /\ lastCall' = Returned(c, call, call.ret)

\* the effects of the UPDATE step of caller c
AfterExec(c, db) ==
  /\ jobs' = ExecJobs(upd[c], db)
  /\ terminalOk' = ExecTerminalOk(upd[c], db)
  /\ upd' = [upd EXCEPT ![c] = IdleCall]
  /\ lastCall' = Returned(c, upd[c], IF db = "ok" THEN "ok" ELSE "db_error")

\* analysis_results.job_id is UNIQUE
UniqueJobId_unchecked(jobID) == TRUE

UniqueJobId(jobID) == \A row \in results : row.job_id # jobID

\* uuid.New() for a result row
NewResultId == Cardinality(results) + 1

\* CreateAnalysisResult: the INSERT fails on a database error or a duplicate job_id
InsertResultOk(jobID, db) == db = "ok" /\ UniqueJobId(jobID)

\* the error CreateAnalysisResult wraps: none, the driver's, or SQLSTATE 23505
InsertResultRet(jobID, db) ==
  IF db # "ok" THEN "db_error"
  ELSE IF UniqueJobId(jobID) THEN "ok" ELSE "unique_violation"

InsertResult(jobID, tenantID) ==
  results \cup {[id |-> NewResultId, job_id |-> jobID, cluster_id |-> ClusterId,
                 tenant_id |-> tenantID]}

\* ------------------------------------------------- TriggerAnalysis (L60-84)

\* an operation given a cancelled context fails without effect
Eff(out, cancelled) == IF cancelled THEN "err" ELSE out

\* "go s.runAnalysis(...)": the caller continues to its return statement
\* whatever the position tp of the started goroutine
GoReturnReady_joined(tp) == tp = "done"

GoReturnReady(tp) == TRUE

ErrorReturn == [ok |-> FALSE, id |-> 0, status |-> "error"]

\* entry: the nil-cluster check and the construction of the pending job
TriggerCall(r, clusterID) ==
  /\ rpc[r] = "idle"
  /\ IF r = 1 THEN TRUE ELSE rpc[r - 1] # "idle"
  /\ IF clusterID = NilUUID
     THEN /\ rpc' = [rpc EXCEPT ![r] = "returned"]
          /\ rret' = [rret EXCEPT ![r] = ErrorReturn]
     ELSE /\ rpc' = [rpc EXCEPT ![r] = "create_job"]
          /\ rret' = rret
  /\ UNCHANGED <<ext, jobs, results, cache, reqCtx, tpc, upd, lastCall, panicked, hist, ncalls>>

\* s.store.CreateJob(ctx, job)
TriggerCreateJob_startsTaskFirst(r, db) ==
  /\ rpc[r] = "create_job"
  /\ tpc' = [tpc EXCEPT ![r] = "store_running"]
  /\ IF db = "ok"
     THEN /\ jobs' = InsertJob(r, NewJobRow(ClusterTenant, JobStatusPending, ClusterId))
          /\ statusLog' = [statusLog EXCEPT ![r] = Append(@, JobStatusPending)]
          /\ rpc' = [rpc EXCEPT ![r] = "cache_pending"]
          /\ rret' = rret
     ELSE /\ rpc' = [rpc EXCEPT ![r] = "returned"]
          /\ rret' = [rret EXCEPT ![r] = ErrorReturn]
          /\ UNCHANGED <<jobs, statusLog>>
  /\ UNCHANGED <<ext, results, cache, reqCtx, upd, lastCall, panicked, cacheLog,
                 storeRet, mirror, allOk, terminalOk, ncalls, outcome>>
TriggerCreateJob(r, db) ==
  /\ rpc[r] = "create_job"
  /\ IF db = "ok"
     THEN /\ jobs' = InsertJob(r, NewJobRow(ClusterTenant, JobStatusPending, ClusterId))
          /\ statusLog' = [statusLog EXCEPT ![r] = Append(@, JobStatusPending)]
          /\ rpc' = [rpc EXCEPT ![r] = "cache_pending"]
          /\ rret' = rret
     ELSE /\ rpc' = [rpc EXCEPT ![r] = "returned"]
          /\ rret' = [rret EXCEPT ![r] = ErrorReturn]
          /\ UNCHANGED <<jobs, statusLog>>
  /\ UNCHANGED <<ext, results, cache, reqCtx, tpc, upd, lastCall, panicked, cacheLog,
                 storeRet, mirror, allOk, terminalOk, ncalls, outcome>>

\* _ = s.cache.SetJobStatus(ctx, job.ID, pending, 30m)
TriggerCacheSet(r, c) ==
  /\ rpc[r] = "cache_pending"
  /\ cache' = IF c = "ok" THEN [cache EXCEPT ![r] = JobStatusPending] ELSE cache
  /\ cacheLog' = IF c = "ok" THEN [cacheLog EXCEPT ![r] = Append(@, JobStatusPending)]
                 ELSE cacheLog
  /\ mirror' = [mirror EXCEPT ![r] = c]
  /\ rpc' = [rpc EXCEPT ![r] = "spawn"]
  /\ UNCHANGED <<ext, jobs, results, reqCtx, rret, tpc, upd, lastCall, panicked, statusLog,
                 storeRet, allOk, terminalOk, ncalls, outcome>>

\* go s.runAnalysis(cluster, job.ID, cluster.TenantID)
TriggerSpawn(r) ==
  /\ rpc[r] = "spawn"
  /\ tpc' = [tpc EXCEPT ![r] = "store_running"]
  /\ rpc' = [rpc EXCEPT ![r] = "return"]
  /\ UNCHANGED <<ext, jobs, results, cache, reqCtx, rret, upd, lastCall, panicked, hist, ncalls>>

\* return job, nil
TriggerReturn(r) ==
  /\ rpc[r] = "return"
  /\ GoReturnReady(tpc[r])
  /\ rpc' = [rpc EXCEPT ![r] = "returned"]
  /\ rret' = [rret EXCEPT ![r] = [ok |-> TRUE, id |-> r, status |-> JobStatusPending]]
  /\ UNCHANGED <<ext, jobs, results, cache, reqCtx, tpc, upd, lastCall, panicked, hist, ncalls>>

\* the triggering request's context is cancelled or expires after the call
\* returned, while the goroutine it started has not finished
CancelRequest(r) ==
  /\ rpc[r] = "returned"
  /\ rret[r].ok
  /\ tpc[r] # "done"
  /\ reqCtx[r] = "live"
  /\ reqCtx' = [reqCtx EXCEPT ![r] = "cancelled"]
  /\ UNCHANGED <<ext, jobs, results, cache, rpc, rret, tpc, upd, lastCall, panicked, hist, ncalls>>

\* ---------------------------------------------------- runAnalysis (L88-170)

T(j) == <<"task", j>>

StoreLocs == {"store_running", "store_failed_fetch", "store_failed_provider",
              "store_failed_storing", "store_completed", "recover_store_failed"}
CacheLocs == {"cache_running", "cache_failed_fetch", "cache_failed_provider",
              "cache_failed_storing", "cache_completed", "recover_cache_failed"}

\* the status passed to UpdateJobStatus / SetJobStatus at each call site
StatusAt(loc) ==
  CASE loc \in {"store_running", "cache_running"} -> JobStatusRunning
    [] loc \in {"store_completed", "cache_completed"} -> JobStatusCompleted
    [] OTHER -> JobStatusFailed

\* the options passed to UpdateJobStatus at each call site
OptsAt(loc) ==
  CASE loc = "store_failed_fetch" ->
         WithErrorMessage(<<"fetching logs: ", ErrLokiUnreachable>>)
    [] loc = "store_failed_provider" -> WithErrorMessage(<<ErrProviderUnavailable>>)
    [] loc = "store_failed_storing" ->
         WithErrorMessage(<<"storing result: ", ErrCreateResult>>)
    [] loc = "store_completed" -> WithClusterID(ClusterId)
    [] loc = "recover_store_failed" -> WithErrorMessage(<<"panic: ", PanicValue>>)
    [] OTHER -> NoOpts

\* the statement reached after the call at loc returned with outcome out;
\* the errors of the status updates and of the cache writes are discarded
Succ_cacheFirstInRecover(loc, out) ==
  CASE loc = "store_running" -> "cache_running"
    [] loc = "cache_running" -> "query_range"
    [] loc = "query_range" ->
         IF out = "ok" THEN "analyze"
         ELSE IF out = "err" THEN "store_failed_fetch" ELSE "recover_cache_failed"
    [] loc = "store_failed_fetch" -> "cache_failed_fetch"
    [] loc = "analyze" ->
         IF out = "ok" THEN "create_result"
         ELSE IF out = "err" THEN "store_failed_provider" ELSE "recover_cache_failed"
    [] loc = "store_failed_provider" -> "cache_failed_provider"
    [] loc = "create_result" ->
         IF out = "ok" THEN "store_completed" ELSE "store_failed_storing"
    [] loc = "store_failed_storing" -> "cache_failed_storing"
    [] loc = "store_completed" -> "cache_completed"
    [] loc = "recover_cache_failed" -> "recover_store_failed"
    [] OTHER -> "done"

Succ(loc, out) ==
  CASE loc = "store_running" -> "cache_running"
    [] loc = "cache_running" -> "query_range"
    [] loc = "query_range" ->
         IF out = "ok" THEN "analyze"
         ELSE IF out = "err" THEN "store_failed_fetch" ELSE "recover_store_failed"
    [] loc = "store_failed_fetch" -> "cache_failed_fetch"
    [] loc = "analyze" ->
         IF out = "ok" THEN "create_result"
         ELSE IF out = "err" THEN "store_failed_provider" ELSE "recover_store_failed"
    [] loc = "store_failed_provider" -> "cache_failed_provider"
    [] loc = "create_result" ->
         IF out = "ok" THEN "store_completed" ELSE "store_failed_storing"
    [] loc = "store_failed_storing" -> "cache_failed_storing"
    [] loc = "store_completed" -> "cache_completed"
    [] loc = "recover_store_failed" -> "recover_cache_failed"
    [] OTHER -> "done"

\* ctx := context.Background(): the task's context is never cancelled
TaskCtxCancelled_requestCtx(j) == reqCtx[j] = "cancelled"

TaskCtxCancelled(j) == FALSE

\* bookkeeping common to the task's calls
Observe(j, out) == allOk' = [allOk EXCEPT ![j] = @ /\ out = "ok"]

\* s.store.UpdateJobStatus(...): the SELECT and the validation
TaskUpdateSelect(j, db) ==
  /\ tpc[j] \in StoreLocs
  /\ upd[T(j)].phase # "exec"
  /\ LET call == SelectCall(j, StatusAt(tpc[j]), OptsAt(tpc[j]),
                            Eff(db, TaskCtxCancelled(j))) IN
     /\ AfterSelect(T(j), call)
     /\ IF call.phase = "exec"
        THEN UNCHANGED <<tpc, storeRet>>
        ELSE /\ tpc' = [tpc EXCEPT ![j] = Succ(@, "ok")]
             /\ storeRet' = [storeRet EXCEPT ![j] = @ \cup {call.status}]
  /\ Observe(j, db)
  /\ UNCHANGED <<ext, jobs, results, cache, rpc, reqCtx, rret, panicked, statusLog,
                 cacheLog, mirror, terminalOk, ncalls, outcome>>

\* s.store.UpdateJobStatus(...): the UPDATE
TaskUpdateExec(j, db) ==
  /\ tpc[j] \in StoreLocs
  /\ upd[T(j)].phase = "exec"
  /\ LET out == Eff(db, TaskCtxCancelled(j)) IN
     /\ AfterExec(T(j), out)
     /\ statusLog' = ExecStatusLog(upd[T(j)], out)
  /\ tpc' = [tpc EXCEPT ![j] = Succ(@, "ok")]
  /\ storeRet' = [storeRet EXCEPT ![j] = @ \cup {upd[T(j)].status}]
  /\ Observe(j, db)
  /\ UNCHANGED <<ext, results, cache, rpc, reqCtx, rret, panicked, cacheLog, mirror, ncalls,
                 outcome>>

\* _ = s.cache.SetJobStatus(ctx, jobID, status, 30m)
TaskCacheSet(j, c) ==
  /\ tpc[j] \in CacheLocs
  /\ LET out == Eff(c, TaskCtxCancelled(j)) IN
     /\ cache' = IF out = "ok" THEN [cache EXCEPT ![j] = StatusAt(tpc[j])] ELSE cache
     /\ cacheLog' = IF out = "ok" THEN [cacheLog EXCEPT ![j] = Append(@, StatusAt(tpc[j]))]
                    ELSE cacheLog
  /\ tpc' = [tpc EXCEPT ![j] = Succ(@, "ok")]
  /\ Observe(j, c)
  /\ UNCHANGED <<ext, jobs, results, rpc, reqCtx, rret, upd, lastCall, panicked, statusLog,
                 storeRet, mirror, terminalOk, ncalls, outcome>>

\* a call of a collaborator that may return, fail or panic (recovered by the
\* deferred function, which then runs the statements at recover_*)
TaskExternal(j, loc, res) ==
  /\ tpc[j] = loc
  /\ LET out == Eff(res, TaskCtxCancelled(j)) IN
     /\ tpc' = [tpc EXCEPT ![j] = Succ(loc, out)]
     /\ panicked' = [panicked EXCEPT ![j] = @ \/ out = "panic"]
     /\ outcome' = [outcome EXCEPT ![j][loc] = out]
  /\ Observe(j, res)
  /\ UNCHANGED <<ext, jobs, results, cache, rpc, reqCtx, rret, upd, lastCall, statusLog,
                 cacheLog, storeRet, mirror, terminalOk, ncalls>>

\* s.loki.QueryRange(ctx, ...)
TaskQueryRange(j, res) == TaskExternal(j, "query_range", res)

\* s.provider.Analyze(analysisCtx, ...)
TaskAnalyze(j, res) == TaskExternal(j, "analyze", res)

\* s.store.CreateAnalysisResult(ctx, &result) with result.JobID = jobID
TaskCreateResult_insertsOnError(j, db) ==
  /\ tpc[j] = "create_result"
  /\ LET ok == InsertResultOk(j, Eff(db, TaskCtxCancelled(j))) IN
     /\ results' = InsertResult(j, ClusterTenant)
     /\ tpc' = [tpc EXCEPT ![j] = Succ(@, IF ok THEN "ok" ELSE "err")]
     /\ outcome' = [outcome EXCEPT ![j].create_result = IF ok THEN "ok" ELSE "err"]
  /\ Observe(j, db)
  /\ UNCHANGED <<ext, jobs, cache, rpc, reqCtx, rret, upd, lastCall, panicked, statusLog,
                 cacheLog, storeRet, mirror, terminalOk, ncalls>>
TaskCreateResult(j, db) ==
  /\ tpc[j] = "create_result"
  /\ LET ok == InsertResultOk(j, Eff(db, TaskCtxCancelled(j))) IN
     /\ results' = IF ok THEN InsertResult(j, ClusterTenant) ELSE results
     /\ tpc' = [tpc EXCEPT ![j] = Succ(@, IF ok THEN "ok" ELSE "err")]
     /\ outcome' = [outcome EXCEPT ![j].create_result = IF ok THEN "ok" ELSE "err"]
  /\ Observe(j, db)
  /\ UNCHANGED <<ext, jobs, cache, rpc, reqCtx, rret, upd, lastCall, panicked, statusLog,
                 cacheLog, storeRet, mirror, terminalOk, ncalls>>

\* ------------------------------------------------- clients of the Store

K(c) == <<"client", c>>

ClientOpts == {NoOpts, [ErrorMessage |-> <<"timeout">>, ClusterID |-> ClusterId]}

\* a client calls CreateJob with a pending job (a second INSERT of the same
\* primary key fails)
ClientCreateJob(id, tenantID) ==
  /\ IF id = 1 THEN TRUE ELSE (id - 1) \in DOMAIN jobs
  /\ id \notin DOMAIN jobs
  /\ jobs' = InsertJob(id, NewJobRow(tenantID, JobStatusPending, NULL))
  /\ UNCHANGED <<ext, results, cache, rpc, reqCtx, rret, tpc, upd, lastCall, panicked,
                 hist, ncalls>>

\* a client calls UpdateJobStatus(id, status, opts): the SELECT and the validation
ClientUpdateSelect(c, id, status, opts, db) ==
  /\ upd[K(c)].phase # "exec"
  /\ ncalls < MaxClientCalls
  /\ ncalls' = ncalls + 1
  /\ AfterSelect(K(c), SelectCall(id, status, opts, db))
  /\ UNCHANGED <<ext, jobs, results, cache, rpc, reqCtx, rret, tpc, panicked, hist>>

\* the UPDATE of a client's UpdateJobStatus call
ClientUpdateExec(c, db) ==
  /\ upd[K(c)].phase = "exec"
  /\ AfterExec(K(c), db)
  /\ UNCHANGED <<ext, results, cache, rpc, reqCtx, rret, tpc, panicked, statusLog,
                 cacheLog, storeRet, mirror, allOk, ncalls, outcome>>

\* a client calls CreateAnalysisResult for job id with result.TenantID = tenantID
ClientCreateResult(id, tenantID, db) ==
  /\ ncalls < MaxClientCalls
  /\ ncalls' = ncalls + 1
  /\ results' = IF InsertResultOk(id, db) THEN InsertResult(id, tenantID) ELSE results
  /\ lastCall' = [caller |-> <<"result", 0>>, id |-> id, status |-> "none",
                  cur |-> "none", ret |-> InsertResultRet(id, db)]
  /\ UNCHANGED <<ext, jobs, cache, rpc, reqCtx, rret, tpc, upd, panicked, hist>>

\* ------------------------------------------------------- specifications

Next ==
  \/ \E r \in JobIds, clusterID \in {NilUUID, ClusterId} : TriggerCall(r, clusterID)
  \/ \E r \in JobIds, db \in {"ok", "err"} : TriggerCreateJob(r, db)
  \/ \E r \in JobIds, c \in {"ok", "err"} : TriggerCacheSet(r, c)
  \/ \E r \in JobIds : TriggerSpawn(r)
  \/ \E r \in JobIds : TriggerReturn(r)
  \/ \E r \in JobIds : CancelRequest(r)
  \/ \E j \in JobIds, db \in {"ok", "err"} : TaskUpdateSelect(j, db)
  \/ \E j \in JobIds, db \in {"ok", "err"} : TaskUpdateExec(j, db)
  \/ \E j \in JobIds, c \in {"ok", "err"} : TaskCacheSet(j, c)
  \/ \E j \in JobIds, res \in {"ok", "err", "panic"} : TaskQueryRange(j, res)
  \/ \E j \in JobIds, res \in {"ok", "err", "panic"} : TaskAnalyze(j, res)
  \/ \E j \in JobIds, db \in {"ok", "err"} : TaskCreateResult(j, db)

Spec == Init /\ [][Next]_vars

StoreNext ==
  \/ \E id \in JobIds : ClientCreateJob(id, ClusterTenant)
  \/ \E c \in Clients, id \in JobIds, status \in Statuses, opts \in ClientOpts,
        db \in {"ok", "err"} : ClientUpdateSelect(c, id, status, opts, db)
  \/ \E c \in Clients, db \in {"ok", "err"} : ClientUpdateExec(c, db)
  \/ \E id \in JobIds, db \in {"ok", "err"} : ClientCreateResult(id, ClusterTenant, db)

StoreSpec == Init /\ [][StoreNext]_vars

\* ------------------------------------------------------ reads and polling

StatusOK == 200
StatusNotFound == 404

\* an identifier under which no job is ever created
NoSuchJob == MaxJobs + 1
PollIds == JobIds \cup {NoSuchJob}

\* GetJob: SELECT ... FROM jobs WHERE id = $1 AND tenant_id = $2
GetJob_noTenantFilter(id, tenantID, db) ==
  IF db # "ok" THEN [err |-> "db_error", row |-> NULL]
  ELSE IF id \in DOMAIN jobs
       THEN [err |-> "none", row |-> jobs[id]]
       ELSE [err |-> "not_found", row |-> NULL]

GetJob(id, tenantID, db) ==
  IF db # "ok" THEN [err |-> "db_error", row |-> NULL]
  ELSE IF id \in DOMAIN jobs /\ jobs[id].tenant_id = tenantID
       THEN [err |-> "none", row |-> jobs[id]]
       ELSE [err |-> "not_found", row |-> NULL]

\* the row of set rows created last (ORDER BY created_at DESC LIMIT 1)
Latest(rows) == CHOOSE row \in rows : \A other \in rows : other.id <= row.id

\* GetAnalysisResultByJobID: SELECT ... FROM analysis_results WHERE job_id = $1
GetAnalysisResultByJobID(jobID, db) ==
  LET rows == {row \in results : row.job_id = jobID} IN
  IF db # "ok" THEN [err |-> "db_error", row |-> NULL]
  ELSE IF rows = {} THEN [err |-> "not_found", row |-> NULL]
  ELSE [err |-> "none", row |-> Latest(rows)]

\* GetAnalysisResultByClusterID: SELECT ... WHERE cluster_id = $1
\* ORDER BY created_at DESC LIMIT 1
GetAnalysisResultByClusterID(clusterID, db) ==
  LET rows == {row \in results : row.cluster_id = clusterID} IN
  IF db # "ok" THEN [err |-> "db_error", row |-> NULL]
  ELSE IF rows = {} THEN [err |-> "not_found", row |-> NULL]
  ELSE [err |-> "none", row |-> Latest(rows)]

\* response.Error(w, http.StatusNotFound, "JOB_NOT_FOUND", "Job not found", nil)
NotFoundResponse ==
  [code |-> StatusNotFound, error |-> "JOB_NOT_FOUND", message |-> "Job not found"]

\* the optional member "result" of the response: absent, or the fields
\* copied from an analysis_results row
NoResult == {}
ResultOf(row) == {row}

\* response.JSON(w, result): job_id, status and, when attached, the result
OKResponse(id, status, result) ==
  [code |-> StatusOK, job_id |-> id, status |-> status, result |-> result]

\* pollJobHandler looks for the analysis result of a job in this status only
WantsResult_anyStatus(status) == TRUE

WantsResult(status) == status = JobStatusCompleted

Answer(tenantID, id, out) == [tenant |-> tenantID, id |-> id, out |-> out]

\* the variables the readers leave alone
written == <<jobs, results, cache, rpc, reqCtx, rret, tpc, upd, lastCall, panicked,
             hist, ncalls, cvars, rvars, avars, lastResult, lastNorm,
  lastBatch, lastLoki>>

\* pollJobHandler up to the response for a job that is not completed:
\* s.GetJob(ctx, jobID, tenantID), 404 on any error
PollGetJob(tenantID, id, db) ==
  /\ poll.pc = "idle"
  /\ LET job == GetJob(id, tenantID, db) IN
     IF job.err # "none"
     THEN /\ resp' = Answer(tenantID, id, NotFoundResponse)
          /\ poll' = IdlePoll
     ELSE IF WantsResult(job.row.status)
     THEN /\ poll' = [pc |-> "get_result", tenant |-> tenantID, id |-> id,
                      status |-> job.row.status]
          /\ resp' = resp
     ELSE /\ resp' = Answer(tenantID, id, OKResponse(id, job.row.status, NoResult))
          /\ poll' = IdlePoll
  /\ UNCHANGED <<written, reply>>

\* pollJobHandler: s.GetAnalysisResultByJobID(ctx, jobID) and the response;
\* the result is attached when the read returned no error
PollGetResult(db) ==
  /\ poll.pc = "get_result"
  /\ LET ar == GetAnalysisResultByJobID(poll.id, db) IN
     resp' = Answer(poll.tenant, poll.id,
                    OKResponse(poll.id, poll.status,
                               IF ar.err = "none" THEN ResultOf(ar.row) ELSE NoResult))
  /\ poll' = IdlePoll
  /\ UNCHANGED <<written, reply>>

Replied(op, caller, res) == [op |-> op, caller |-> caller, err |-> res.err, row |-> res.row]

\* code acting for tenant caller reads a job
ReadJob(caller, id, db) ==
  /\ reply' = Replied("GetJob", caller, GetJob(id, caller, db))
  /\ UNCHANGED <<written, poll, resp>>

\* code acting for tenant caller reads the analysis result of a job
ReadResultByJob(caller, jobID, db) ==
  /\ reply' = Replied("GetAnalysisResultByJobID", caller,
                      GetAnalysisResultByJobID(jobID, db))
  /\ UNCHANGED <<written, poll, resp>>

\* code acting for tenant caller reads the latest analysis result of a cluster
ReadResultByCluster(caller, clusterID, db) ==
  /\ reply' = Replied("GetAnalysisResultByClusterID", caller,
                      GetAnalysisResultByClusterID(clusterID, db))
  /\ UNCHANGED <<written, poll, resp>>

\* the tables as one client of the store writes them, for any tenants
WriteNext ==
  \/ \E id \in JobIds, tenantID \in Tenants : ClientCreateJob(id, tenantID)
  \/ \E id \in JobIds, status \in Statuses, db \in {"ok", "err"} :
        ClientUpdateSelect(1, id, status, NoOpts, db)
  \/ \E db \in {"ok", "err"} : ClientUpdateExec(1, db)
  \/ \E id \in JobIds, tenantID \in Tenants, db \in {"ok", "err"} :
        ClientCreateResult(id, tenantID, db)

\* the store's read operations called on behalf of any tenant
ReadNext ==
  \/ WriteNext
  \/ \E caller \in Tenants, id \in PollIds, db \in {"ok", "err"} :
        ReadJob(caller, id, db)
  \/ \E caller \in Tenants, id \in PollIds, db \in {"ok", "err"} :
        ReadResultByJob(caller, id, db)
  \/ \E caller \in Tenants, db \in {"ok", "err"} :
        ReadResultByCluster(caller, ClusterId, db)

ReadSpec == Init /\ [][ReadNext]_vars

\* GET /analyze/{jobID} served for credentials of any tenant
PollNext ==
  \/ WriteNext
  \/ \E tenantID \in Tenants, id \in PollIds, db \in {"ok", "err"} :
        PollGetJob(tenantID, id, db)
  \/ \E db \in {"ok", "err"} : PollGetResult(db)

PollSpec == Init /\ [][PollNext]_vars

\* ------------------------------------------------------- error clusters

\* LevelSeverity (after strings.ToUpper)
LevelSeverity(level) ==
  CASE level = "FATAL" -> 4
    [] level = "CRITICAL" -> 3
    [] level = "ERROR" -> 2
    [] level \in {"WARN", "WARNING"} -> 1
    [] OTHER -> 0

\* the levels the cluster engine hands to the store
Levels == {"FATAL", "ERROR", "WARN", "INFO"}

\* CHECK (level IN ('ERROR','WARN','FATAL','CRITICAL'))
LevelCheck(level) == level \in {"ERROR", "WARN", "FATAL", "CRITICAL"}

\* the column lists of error_clusters that carry a PRIMARY KEY or UNIQUE
\* constraint or a unique index: the table has the primary key only (its
\* four indexes are plain indexes)
ErrorClusterUniqueKeys == {<<"id">>}

\* ON CONFLICT (tenant_id, service, namespace, fingerprint)
ConflictTarget == <<"tenant_id", "service", "namespace", "fingerprint">>

\* PostgreSQL accepts ON CONFLICT (columns) only when a unique index or
\* constraint on exactly these columns exists (otherwise SQLSTATE 42P10)
ArbiterExists == ConflictTarget \in ErrorClusterUniqueKeys

KeyOf(row) == <<row.tenant_id, row.fingerprint>>

\* the existing row that conflicts with cluster on the conflict target
Conflicting(cluster) == {row \in clusters : KeyOf(row) = KeyOf(cluster)}

\* DO UPDATE SET count = error_clusters.count + EXCLUDED.count,
\*               last_seen_at = GREATEST(error_clusters.last_seen_at, EXCLUDED.last_seen_at)
Merged(row, cluster) ==
  [row EXCEPT
     !.count = @ + cluster.count,
     !.last_seen_at = IF cluster.last_seen_at > @ THEN cluster.last_seen_at ELSE @]

\* UpsertErrorCluster: one INSERT ... ON CONFLICT ... DO UPDATE ... RETURNING
\* statement; the result is the error, the returned row and the table
Upsert(cluster, db) ==
  IF db # "ok" THEN [err |-> "db_error", row |-> NULL, table |-> clusters]
  ELSE IF ~ArbiterExists
  THEN [err |-> "no_arbiter_index", row |-> NULL, table |-> clusters]
  ELSE IF ~LevelCheck(cluster.level)
  THEN [err |-> "check_violation", row |-> NULL, table |-> clusters]
  ELSE IF Conflicting(cluster) # {}
  THEN LET old == CHOOSE row \in Conflicting(cluster) : TRUE
           new == Merged(old, cluster) IN
       [err |-> "none", row |-> new, table |-> (clusters \ {old}) \cup {new}]
  ELSE IF \E row \in clusters : row.id = cluster.id
  THEN [err |-> "unique_violation", row |-> NULL, table |-> clusters]
  ELSE [err |-> "none", row |-> cluster, table |-> clusters \cup {cluster}]

\* the contributions under a key after the database executed one more upsert
Contributed(c, cluster) ==
  [n |-> c.n + 1,
   id |-> IF c.n = 0 THEN cluster.id ELSE c.id,
   count |-> c.count + cluster.count,
   first_seen_at |-> IF c.n = 0 \/ cluster.first_seen_at < c.first_seen_at
                     THEN cluster.first_seen_at ELSE c.first_seen_at,
   last_seen_at |-> IF cluster.last_seen_at > c.last_seen_at
                    THEN cluster.last_seen_at ELSE c.last_seen_at,
   levels |-> c.levels \cup {cluster.level}]

\* the variables the cluster operations leave alone
notClusters == <<jobs, results, cache, rpc, reqCtx, rret, tpc, upd, lastCall,
                 panicked, hist, ncalls, poll, resp, reply, rvars, avars,
                 lastResult, lastNorm,
  lastBatch, lastLoki>>

\* a caller upserts the cluster it built (a fresh id, first_seen <= last_seen)
UpsertErrorCluster(tenantID, fp, level, count, first, last, db) ==
  /\ nups < MaxUpserts
  /\ first <= last
  /\ LET cluster == [id |-> nups + 1, tenant_id |-> tenantID, service |-> Service,
                     namespace |-> Namespace, fingerprint |-> fp, level |-> level,
                     first_seen_at |-> first, last_seen_at |-> last, count |-> count]
         res == Upsert(cluster, db) IN
     /\ clusters' = res.table
     /\ lastUpsert' = [db |-> db, valid |-> LevelCheck(level), key |-> KeyOf(cluster),
                       err |-> res.err, row |-> res.row]
     /\ contrib' = IF db = "ok" /\ LevelCheck(level)
                   THEN [contrib EXCEPT ![KeyOf(cluster)] = Contributed(@, cluster)]
                   ELSE contrib
  /\ nups' = nups + 1
  /\ UNCHANGED notClusters

ClusterNext ==
  \E tenantID \in Tenants, fp \in Fingerprints, level \in Levels, count \in 1..MaxCount,
     first \in 1..MaxTime, last \in 1..MaxTime, db \in {"ok", "err"} :
    UpsertErrorCluster(tenantID, fp, level, count, first, last, db)

ClusterSpec == Init /\ [][ClusterNext]_vars

\* --------------------------------------------------------- rate limiting

StatusTooManyRequests == 429

\* strconv.Itoa for the numbers of the model: the decimal digits
Digits == <<"0", "1", "2", "3", "4", "5", "6", "7", "8", "9">>
RECURSIVE Itoa(_)
Itoa(n) == IF n < 10 THEN <<Digits[n + 1]>>
           ELSE Itoa(n \div 10) \o <<Digits[(n % 10) + 1]>>

\* 60*time.Second, the expiry Limit passes to IncrWithExpiry, in units of 20
\* seconds
Minute == 3

\* IncrWithExpiry(key, 60*time.Second): INCR and EXPIRE in one MULTI/EXEC
\* transaction. c = "ok": applied, the new value is returned; c = "err": not
\* applied, an error is returned; c = "err_applied": applied, but the reply
\* is lost and an error is returned. EXPIRE is part of every call
IncrWithExpiry_valueBeforeIncr(p, c) ==
  [err |-> c # "ok",
   val |-> IF c = "ok" THEN counters[p] ELSE 0,
   store |-> IF c = "err" THEN counters ELSE [counters EXCEPT ![p] = @ + 1],
   expires |-> IF c = "err" THEN expiry ELSE [expiry EXCEPT ![p] = now + Minute]]
IncrWithExpiry(p, c) ==
  [err |-> c # "ok",
   val |-> IF c = "ok" THEN counters[p] + 1 ELSE 0,
   store |-> IF c = "err" THEN counters ELSE [counters EXCEPT ![p] = @ + 1],
   expires |-> IF c = "err" THEN expiry ELSE [expiry EXCEPT ![p] = now + Minute]]

\* remaining := rl.requestsPerMin - int(count), floored at 0
Remaining(count) == IF RequestsPerMin - count < 0 THEN 0 ELSE RequestsPerMin - count

\* count > int64(rl.requestsPerMin)
OverLimit(count) == count > RequestsPerMin

\* the headers set by Limit (X-RateLimit-Reset, a clock reading, is left out)
LimitHeaders(count) ==
  ("X-RateLimit-Limit" :> Itoa(RequestsPerMin)) @@
  ("X-RateLimit-Remaining" :> Itoa(Remaining(count)))

RetryAfter == "Retry-After" :> <<"6", "0">>

\* the variables the rate limiter leaves alone
notLimiter == <<jobs, results, cache, rpc, reqCtx, rret, tpc, upd, lastCall,
                panicked, hist, ncalls, poll, resp, reply, cvars, avars,
                lastResult, lastNorm,
  lastBatch, lastLoki>>

\* what Limit does with the result of the increment for the k-th request
\* of rawKey: fail open on an error, 429 over the limit, else the handler
\* (next), which answers 200
LimitResponse_failClosed(rawKey, k, c, incr) ==
  IF incr.err \/ OverLimit(incr.val)
  THEN [cred |-> rawKey, k |-> k, incr |-> c, status |-> StatusTooManyRequests,
        headers |-> LimitHeaders(incr.val) @@ RetryAfter, handler |-> FALSE,
        at |-> now]
  ELSE [cred |-> rawKey, k |-> k, incr |-> c, status |-> StatusOK,
        headers |-> LimitHeaders(incr.val), handler |-> TRUE, at |-> now]
LimitResponse(rawKey, k, c, incr) ==
  IF incr.err
  THEN [cred |-> rawKey, k |-> k, incr |-> c, status |-> StatusOK,
        headers |-> NoHeaders, handler |-> TRUE, at |-> now]
  ELSE IF OverLimit(incr.val)
  THEN [cred |-> rawKey, k |-> k, incr |-> c, status |-> StatusTooManyRequests,
        headers |-> LimitHeaders(incr.val) @@ RetryAfter, handler |-> FALSE,
        at |-> now]
  ELSE [cred |-> rawKey, k |-> k, incr |-> c, status |-> StatusOK,
        headers |-> LimitHeaders(incr.val), handler |-> TRUE, at |-> now]

\* the request times in ts that lie within the minute ending at time t
Recent(ts, t) == SelectSeq(ts, LAMBDA u : u + Minute >= t)

\* RateLimit.Limit serving an authenticated request made with rawKey: what
\* it does to the counter and what it answers
LimitStep(rawKey, c) ==
  /\ nreq < MaxRequests
  /\ nreq' = nreq + 1
  /\ LET p == KeyPrefix(rawKey)
         incr == IncrWithExpiry(p, c)
         k == seen[rawKey] + 1 IN
     /\ counters' = incr.store
     /\ expiry' = incr.expires
     /\ seen' = [seen EXCEPT ![rawKey] = k]
     /\ stamps' = [stamps EXCEPT ![rawKey] = Append(@, now)]
     /\ incrLog' = [incrLog EXCEPT ![p] = Append(@, [c |-> c, val |-> incr.val])]
     /\ lastLimit' = LimitResponse(rawKey, k, c, incr)
     /\ answered' = [answered EXCEPT
                       ![rawKey] = [status |-> LimitResponse(rawKey, k, c, incr).status,
                                    at |-> now]]
  /\ now' = now

\* a request that reaches the rate limiter, seen from the limiter alone
Limit(rawKey, c) ==
  /\ LimitStep(rawKey, c)
  /\ UNCHANGED notLimiter

\* an entry whose time to live has run out at time t is gone
Expired(p, t) == counters[p] > 0 /\ expiry[p] <= t

\* 20 seconds pass; the entries that reach their expiry time are removed
Tick ==
  /\ now < MaxClock
  /\ now' = now + 1
  /\ counters' = [p \in Prefixes |-> IF Expired(p, now + 1) THEN 0 ELSE counters[p]]
  /\ expiry' = [p \in Prefixes |-> IF Expired(p, now + 1) THEN 0 ELSE expiry[p]]
  /\ seen' = [rawKey \in Creds |->
               IF Expired(KeyPrefix(rawKey), now + 1) THEN 0 ELSE seen[rawKey]]
  /\ incrLog' = [p \in Prefixes |->
                  IF Expired(p, now + 1) \/ counters[p] = 0 THEN <<>> ELSE incrLog[p]]
  /\ stamps' = [rawKey \in Creds |-> Recent(stamps[rawKey], now + 1)]
  /\ UNCHANGED <<lastLimit, nreq, answered>>
  /\ UNCHANGED notLimiter

LimitNext ==
  \/ \E rawKey \in Creds, c \in {"ok", "err", "err_applied"} : Limit(rawKey, c)
  \/ Tick

LimitSpec == Init /\ [][LimitNext]_vars

\* the credential whose silence is followed
Throttled == lh_test1 \o <<"a">>

\* the rate limiter after Throttled made RequestsPerMin + 1 requests at time
\* 0, every increment succeeding: the last one was answered 429. The
\* requests are counted from here on.
InitThrottled ==
  /\ now = 0
  /\ nreq = 0
  /\ counters = [p \in Prefixes |->
                  IF p = KeyPrefix(Throttled) THEN RequestsPerMin + 1 ELSE 0]
  /\ expiry = [p \in Prefixes |-> IF p = KeyPrefix(Throttled) THEN Minute ELSE 0]
  /\ seen = [rawKey \in Creds |-> IF rawKey = Throttled THEN RequestsPerMin + 1 ELSE 0]
  /\ stamps = [rawKey \in Creds |->
                IF rawKey = Throttled THEN [i \in 1..(RequestsPerMin + 1) |-> 0]
                ELSE <<>>]
  /\ incrLog = [p \in Prefixes |->
                 IF p = KeyPrefix(Throttled)
                 THEN [i \in 1..(RequestsPerMin + 1) |-> [c |-> "ok", val |-> i]]
                 ELSE <<>>]
  /\ lastLimit = [cred |-> Throttled, k |-> RequestsPerMin + 1, incr |-> "ok",
                  status |-> StatusTooManyRequests,
                  headers |-> LimitHeaders(RequestsPerMin + 1) @@ RetryAfter,
                  handler |-> FALSE, at |-> 0]
  /\ answered = [rawKey \in Creds |->
                  IF rawKey = Throttled
                  THEN [status |-> StatusTooManyRequests, at |-> 0]
                  ELSE NoAnswer]

\* the requests and the passing of time that follow a rejection
ThrottledInit == InitRest /\ InitThrottled

ThrottledSpec == ThrottledInit /\ [][LimitNext]_vars

\* ------------------------------------------- credentials and middleware

StatusUnauthorized == 401
StatusForbidden == 403
StatusInternalServerError == 500

ErrNotFound == "resource not found"
ErrDuplicateKey == "duplicate key violation"

KeyNames == {"ci"}
ScopeSets == {{"read", "write"}, {"read", "admin"}}

\* bcrypt.GenerateFromPassword: a one-way hash of the raw key
Bcrypt(rawKey) == <<"bcrypt", rawKey>>

\* bcrypt.CompareHashAndPassword(hash, rawKey) == nil
CompareHashAndPassword(hash, rawKey) == hash = Bcrypt(rawKey)

\* the row of a credential issued for rawKey: the prefix is the first
\* keyPrefixLen characters of the raw key, the hash is of the whole raw key.
\* The columns last_used_at, created_at and updated_at are left out, and with
\* them UpdateAPIKeyLastUsed, which writes nothing else
NewAPIKey(id, tenantID, name, rawKey, scopes) ==
  [id |-> id, tenant_id |-> tenantID, name |-> name, key_hash |-> Bcrypt(rawKey),
   key_prefix |-> KeyPrefix(rawKey), scopes |-> scopes, deleted_at |-> NULL]

\* UNIQUE(tenant_id, name) of table api_keys
APIKeyUnique(key) ==
  \A k \in apiKeys : ~(k.tenant_id = key.tenant_id /\ k.name = key.name)

\* the raw keys of the rows of the table: a raw key is random and is issued
\* once
Issued == {rawKey \in Creds : \E k \in apiKeys : k.key_hash = Bcrypt(rawKey)}

\* the variables the middleware chain leaves alone
notChain == <<jobs, results, cache, rpc, reqCtx, rret, tpc, upd, lastCall,
              panicked, hist, ncalls, poll, resp, reply, cvars, lastResult,
              lastNorm,
  lastBatch, lastLoki>>

\* the variables the credential operations leave alone
notKeys == <<notChain, rvars>>

\* PostgresStore.CreateAPIKey of a new credential (a fresh id)
CreateAPIKey(tenantID, name, rawKey, scopes, db) ==
  /\ nkeyops < MaxKeyOps /\ nkeyops + nreq < MaxOps
  /\ nkeyops' = nkeyops + 1
  /\ rawKey \notin Issued
  /\ LET key == NewAPIKey(Cardinality(apiKeys) + 1, tenantID, name, rawKey, scopes)
         err == IF db = "err" THEN "create api key: db error"
                ELSE IF ~APIKeyUnique(key) THEN ErrDuplicateKey
                ELSE "nil" IN
     /\ apiKeys' = IF err = "nil" THEN apiKeys \cup {key} ELSE apiKeys
     /\ lastKeyOp' = [op |-> "create", id |-> key.id, tenant |-> tenantID,
                      name |-> name, db |-> db, err |-> err]
  /\ lastReq' = NoRequest
  /\ UNCHANGED revokedOk
  /\ UNCHANGED notKeys

\* the rows matched by WHERE id = $1 AND tenant_id = $2 AND deleted_at IS NULL
Revocable_withRevoked(id, tenantID) ==
  {k \in apiKeys : k.id = id /\ k.tenant_id = tenantID}
Revocable(id, tenantID) ==
  {k \in apiKeys : k.id = id /\ k.tenant_id = tenantID /\ k.deleted_at = NULL}

\* PostgresStore.RevokeAPIKey
RevokeAPIKey(id, tenantID, db) ==
  /\ nkeyops < MaxKeyOps /\ nkeyops + nreq < MaxOps
  /\ nkeyops' = nkeyops + 1
  /\ LET rows == IF db = "err" THEN {} ELSE Revocable(id, tenantID)
         err == IF db = "err" THEN "revoke api key: db error"
                ELSE IF Cardinality(rows) = 0 THEN ErrNotFound
                ELSE "nil" IN
     /\ apiKeys' = (apiKeys \ rows) \cup
                     {[k EXCEPT !.deleted_at = "now"] : k \in rows}
     /\ revokedOk' = IF err = "nil" THEN revokedOk \cup {id} ELSE revokedOk
     /\ lastKeyOp' = [op |-> "revoke", id |-> id, tenant |-> tenantID,
                      name |-> "none", db |-> db, err |-> err]
  /\ lastReq' = NoRequest
  /\ UNCHANGED notKeys

\* PostgresStore.GetAPIKeyByPrefix
GetAPIKeyByPrefix_withRevoked(prefix, db) ==
  IF db = "err" THEN [err |-> TRUE, keys |-> {}]
  ELSE [err |-> FALSE, keys |-> {k \in apiKeys : k.key_prefix = prefix}]
GetAPIKeyByPrefix(prefix, db) ==
  IF db = "err" THEN [err |-> TRUE, keys |-> {}]
  ELSE [err |-> FALSE,
        keys |-> {k \in apiKeys : k.key_prefix = prefix /\ k.deleted_at = NULL}]

\* strings.EqualFold on the schemes of the model
ToLower == [x \in {"", "Bearer", "bearer", "Basic"} |->
              IF x = "Bearer" THEN "bearer" ELSE IF x = "Basic" THEN "basic" ELSE x]
EqualFold(a, b) == ToLower[a] = ToLower[b]

\* extractBearerToken: "" unless the header is "<Bearer> <token>"
extractBearerToken(header) ==
  IF header.scheme = "" \/ header.token = <<>> THEN <<>>
  ELSE IF ~EqualFold(header.scheme, "Bearer") THEN <<>>
  ELSE header.token

Rejected(status, code, lookup) ==
  [matched |-> FALSE, status |-> status, code |-> code, lookup |-> lookup,
   key |-> NULL]

\* Auth.Authenticate up to the call of next: the response it writes itself
\* (status > 0), or the key whose hash matches the raw key
Authenticate_forbiddenOnNoMatch(header, db) ==
  LET rawKey == extractBearerToken(header) IN
  IF rawKey = <<>>
  THEN Rejected(StatusUnauthorized, "INVALID_TOKEN", "none")
  ELSE IF Len(rawKey) < keyPrefixLen
  THEN Rejected(StatusUnauthorized, "INVALID_TOKEN", "none")
  ELSE
    LET got == GetAPIKeyByPrefix(KeyPrefix(rawKey), db)
        match == {k \in got.keys : CompareHashAndPassword(k.key_hash, rawKey)} IN
    IF got.err
    THEN Rejected(StatusInternalServerError, "INTERNAL_ERROR", "err")
    ELSE IF match = {}
    THEN Rejected(StatusForbidden, "FORBIDDEN", "ok")
    ELSE [matched |-> TRUE, status |-> 0, code |-> "none", lookup |-> "ok",
          key |-> CHOOSE k \in match : TRUE]
Authenticate(header, db) ==
  LET rawKey == extractBearerToken(header) IN
  IF rawKey = <<>>
  THEN Rejected(StatusUnauthorized, "INVALID_TOKEN", "none")
  ELSE IF Len(rawKey) < keyPrefixLen
  THEN Rejected(StatusUnauthorized, "INVALID_TOKEN", "none")
  ELSE
    LET got == GetAPIKeyByPrefix(KeyPrefix(rawKey), db)
        match == {k \in got.keys : CompareHashAndPassword(k.key_hash, rawKey)} IN
    IF got.err
    THEN Rejected(StatusInternalServerError, "INTERNAL_ERROR", "err")
    ELSE IF match = {}
    THEN Rejected(StatusUnauthorized, "INVALID_TOKEN", "ok")
    ELSE [matched |-> TRUE, status |-> 0, code |-> "none", lookup |-> "ok",
          key |-> CHOOSE k \in match : TRUE]

\* the routes of the protected group; the last three are in the admin group
AdminRoutes == {"POST /api/v1/admin/keys", "GET /api/v1/admin/keys",
                "DELETE /api/v1/admin/keys/{keyID}"}
Routes == {"POST /api/v1/analyze"} \cup AdminRoutes

\* the middleware of a route after Authenticate and Limit:
\* RequireScope("admin") on the admin group
RequiredScopes_none(route) == {}
RequiredScopes(route) == IF route \in AdminRoutes THEN {"admin"} ELSE {}

\* RequireScope(scope): one of the scopes of the request is scope
HasScope(scopes, scope) == \E x \in scopes : x = scope

\* the raw keys requests are made with: issued ones, one that is not issued
\* and has the prefix of an issued one, and one of keyPrefixLen - 1 characters
Tokens == {lh_test1 \o <<"a">>, lh_over1 \o <<"c">>, lh_test1 \o <<"z">>,
           SubSeq(lh_test1, 1, keyPrefixLen - 1)}

AuthHeaders ==
  {NoAuthHeader, [scheme |-> "Basic", token |-> lh_test1 \o <<"a">>]} \cup
  {[scheme |-> IF t = lh_test1 \o <<"a">> THEN "bearer" ELSE "Bearer", token |-> t] :
     t \in Tokens}

\* a request to a route of the protected group served by the chain
\* Authenticate, Limit, RequireScope (admin group), handler; the handler
\* answers 200. The cache answers the limiter here (LimitSpec has the
\* requests it does not answer)
Serve(header, route, db) ==
  LET a == Authenticate(header, db)
      req == [header |-> header, route |-> route, lookup |-> a.lookup,
              status |-> a.status, code |-> a.code, limiter |-> FALSE,
              handler |-> FALSE, key |-> 0] IN
  /\ IF ~a.matched
     THEN /\ lastReq' = req
          /\ UNCHANGED rvars
     ELSE /\ nkeyops + nreq < MaxOps
          /\ LimitStep(extractBearerToken(header), "ok")
          /\ lastReq' =
               IF ~lastLimit'.handler
               THEN [req EXCEPT !.key = a.key.id, !.limiter = TRUE,
                                !.status = lastLimit'.status,
                                !.code = "RATE_LIMIT_EXCEEDED"]
               ELSE IF \E x \in RequiredScopes(route) : ~HasScope(a.key.scopes, x)
               THEN [req EXCEPT !.key = a.key.id, !.limiter = TRUE,
                                !.status = StatusForbidden, !.code = "FORBIDDEN"]
               ELSE [req EXCEPT !.key = a.key.id, !.limiter = TRUE,
                                !.handler = TRUE, !.status = StatusOK]
  /\ lastKeyOp' = NoKeyOp
  /\ UNCHANGED <<apiKeys, revokedOk, nkeyops>>
  /\ UNCHANGED notChain

KeyIds == 1..MaxKeyOps

AuthNext ==
  \/ \E tenantID \in Tenants, name \in KeyNames, rawKey \in Creds,
        scopes \in ScopeSets, db \in {"ok", "err"} :
       CreateAPIKey(tenantID, name, rawKey, scopes, db)
  \/ \E id \in KeyIds, tenantID \in Tenants, db \in {"ok", "err"} :
       RevokeAPIKey(id, tenantID, db)
  \/ \E header \in AuthHeaders, route \in Routes, db \in {"ok", "err"} :
       Serve(header, route, db)

AuthSpec == Init /\ [][AuthNext]_vars

\* ------------------------------------ the result the task persists

RootCauseMaxBytes == 4000
SummaryMaxBytes == 2000

\* len(s)
ByteLen(s) == s.pad + Len(s.tail)

\* s[i], bytes being numbered from 0
ByteAt(s, i) == IF i < s.pad THEN "a" ELSE s.tail[i - s.pad + 1]

\* s[:n]
Slice(s, n) == IF n <= s.pad THEN [pad |-> n, tail |-> <<>>]
               ELSE [pad |-> s.pad, tail |-> SubSeq(s.tail, 1, n - s.pad)]

\* utf8.RuneStart(b): b is not a continuation byte
RuneStart(b) == b # "c"

\* for maxBytes > 0 && !utf8.RuneStart(s[maxBytes]) { maxBytes-- }
RECURSIVE CutBack(_, _)
CutBack(s, maxBytes) ==
  IF maxBytes > 0 /\ ~RuneStart(ByteAt(s, maxBytes)) THEN CutBack(s, maxBytes - 1)
  ELSE maxBytes

\* truncateString
truncateString_splitRunes(s, maxBytes) ==
  IF ByteLen(s) <= maxBytes THEN s ELSE Slice(s, maxBytes)
truncateString(s, maxBytes) ==
  IF ByteLen(s) <= maxBytes THEN s ELSE Slice(s, CutBack(s, maxBytes))

\* float64 comparisons: every comparison with NaN is false
FloatLess(x, y) == ~x.nan /\ ~y.nan /\ x.v < y.v

Zero == Float(0)
One == Float(2)

\* if result.Confidence < 0 { = 0 }; if result.Confidence > 1.0 { = 1.0 }
ClampConfidence(c) ==
  LET c1 == IF FloatLess(c, Zero) THEN Zero ELSE c IN
  IF FloatLess(One, c1) THEN One ELSE c1

\* the order of float8 in the database: NaN is equal to NaN and greater than
\* every number
PgLessEq(x, y) == IF x.nan THEN y.nan ELSE (y.nan \/ x.v <= y.v)

\* CHECK (confidence >= 0.0 AND confidence <= 1.0)
ConfidenceCheck(c) == PgLessEq(Zero, c) /\ PgLessEq(c, One)

\* what runAnalysis makes of the result the provider returned before it
\* stores it
Prepare(result) ==
  [confidence |-> ClampConfidence(result.confidence),
   root_cause |-> truncateString(result.root_cause, RootCauseMaxBytes),
   summary |-> truncateString(result.summary, SummaryMaxBytes)]

\* the byte sequences of at most n bytes
ByteKinds == {"a", "L2", "L3", "L4", "c"}
Tails(n) == UNION {[1..k -> ByteKinds] : k \in 0..n}

\* the lengths of padding that put the cut of a limit at or near the tail
Pads(limit) == {0} \cup (limit - MaxTail)..limit

Confidences == {NaN} \cup {Float(v) : v \in (0 - MaxConf)..MaxConf}

\* the variables the end of the analysis task leaves alone in this view
notResult == <<jobs, results, cache, rpc, reqCtx, rret, tpc, upd, lastCall,
               panicked, hist, ncalls, poll, resp, reply, cvars, rvars, avars,
               lastNorm,
  lastBatch, lastLoki>>

\* runAnalysis from the return of provider.Analyze without an error to the
\* return of CreateAnalysisResult: clamp, truncate, insert
StoreAnalysis(provided, db) ==
  LET prepared == Prepare(provided)
      err == IF db = "err" THEN "create analysis result: db error"
             ELSE IF ~ConfidenceCheck(prepared.confidence) THEN "check_violation"
             ELSE "nil" IN
  /\ lastResult' = [provided |-> provided, prepared |-> prepared, db |-> db,
                    err |-> err,
                    rows |-> IF err = "nil" THEN {prepared} ELSE {}]
  /\ UNCHANGED notResult

\* one task is followed, whatever its provider returned
ResultNext ==
  /\ lastResult = NoAnalysis
  /\ \E c \in Confidences, padR \in Pads(RootCauseMaxBytes),
        padS \in Pads(SummaryMaxBytes), tail \in Tails(MaxTail),
        db \in {"ok", "err"} :
       StoreAnalysis([confidence |-> c,
                      root_cause |-> [pad |-> padR, tail |-> tail],
                      summary |-> [pad |-> padS, tail |-> tail]], db)

ResultSpec == Init /\ [][ResultNext]_vars

\* ------------------------------------ normalization and fingerprints

\* A message is the sequence of its characters; the characters used here
\* are ASCII, one byte each.

\* \d
DecimalDigit == {"0", "1", "2", "3", "4", "5", "6", "7", "8", "9"}

\* [0-9a-fA-F]; under (?i), [0-9a-f] is the same class
HexDigit == DecimalDigit \cup {"a", "b", "c", "d", "e", "f"} \cup
            {"A", "B", "C", "D", "E", "F"}

\* \s
Whitespace == {" ", "\t", "\n", "\f", "\r"}

\* the character at position i of msg belongs to class
IsAt(msg, i, class) == i <= Len(msg) /\ msg[i] \in class

\* the k characters of msg from position i all belong to class
AllIn(msg, i, k, class) ==
  i + k - 1 <= Len(msg) /\ \A j \in i..(i + k - 1) : msg[j] \in class

\* the length of the longest run of characters of class from position i:
\* what a greedy class+ or class* consumes there
RECURSIVE Run(_, _, _)
Run(msg, i, class) ==
  IF IsAt(msg, i, class) THEN 1 + Run(msg, i + 1, class) ELSE 0

\* The regexes: each gives the length of its match starting at position i of
\* msg, 0 when it does not match there.

\* ^\d{4}-\d{2}-\d{2}[T ]\d{2}:\d{2}:\d{2}(\.\d+)?(Z|[+-]\d{2}:\d{2})?\s*
\* matches at the start of the text only
reDatetime(msg, i) ==
  IF /\ i = 1
     /\ AllIn(msg, 1, 4, DecimalDigit) /\ IsAt(msg, 5, {"-"})
     /\ AllIn(msg, 6, 2, DecimalDigit) /\ IsAt(msg, 8, {"-"})
     /\ AllIn(msg, 9, 2, DecimalDigit) /\ IsAt(msg, 11, {"T", " "})
     /\ AllIn(msg, 12, 2, DecimalDigit) /\ IsAt(msg, 14, {":"})
     /\ AllIn(msg, 15, 2, DecimalDigit) /\ IsAt(msg, 17, {":"})
     /\ AllIn(msg, 18, 2, DecimalDigit)
  THEN LET frac == IF IsAt(msg, 20, {"."}) /\ IsAt(msg, 21, DecimalDigit)
                   THEN 1 + Run(msg, 21, DecimalDigit) ELSE 0
           z == 20 + frac
           zone == IF IsAt(msg, z, {"Z"}) THEN 1
                   ELSE IF /\ IsAt(msg, z, {"+", "-"})
                           /\ AllIn(msg, z + 1, 2, DecimalDigit)
                           /\ IsAt(msg, z + 3, {":"})
                           /\ AllIn(msg, z + 4, 2, DecimalDigit)
                   THEN 6 ELSE 0 IN
       19 + frac + zone + Run(msg, z + zone, Whitespace)
  ELSE 0

\* 0x[0-9a-fA-F]+
reHexAddr(msg, i) ==
  IF IsAt(msg, i, {"0"}) /\ IsAt(msg, i + 1, {"x"}) /\ IsAt(msg, i + 2, HexDigit)
  THEN 2 + Run(msg, i + 2, HexDigit) ELSE 0

\* (?i)[0-9a-f]{8}-[0-9a-f]{4}-[0-9a-f]{4}-[0-9a-f]{4}-[0-9a-f]{12}
reUUID_caseSensitive(msg, i) ==
  LET lower == DecimalDigit \cup {"a", "b", "c", "d", "e", "f"} IN
  IF /\ AllIn(msg, i, 8, lower) /\ IsAt(msg, i + 8, {"-"})
     /\ AllIn(msg, i + 9, 4, lower) /\ IsAt(msg, i + 13, {"-"})
     /\ AllIn(msg, i + 14, 4, lower) /\ IsAt(msg, i + 18, {"-"})
     /\ AllIn(msg, i + 19, 4, lower) /\ IsAt(msg, i + 23, {"-"})
     /\ AllIn(msg, i + 24, 12, lower)
  THEN 36 ELSE 0
reUUID(msg, i) ==
  IF /\ AllIn(msg, i, 8, HexDigit) /\ IsAt(msg, i + 8, {"-"})
     /\ AllIn(msg, i + 9, 4, HexDigit) /\ IsAt(msg, i + 13, {"-"})
     /\ AllIn(msg, i + 14, 4, HexDigit) /\ IsAt(msg, i + 18, {"-"})
     /\ AllIn(msg, i + 19, 4, HexDigit) /\ IsAt(msg, i + 23, {"-"})
     /\ AllIn(msg, i + 24, 12, HexDigit)
  THEN 36 ELSE 0

\* \[\d+\]
reBracketNum(msg, i) ==
  LET n == Run(msg, i + 1, DecimalDigit) IN
  IF IsAt(msg, i, {"["}) /\ n > 0 /\ IsAt(msg, i + 1 + n, {"]"}) THEN n + 2
  ELSE 0

\* \(\d+\)
reParenNum(msg, i) ==
  LET n == Run(msg, i + 1, DecimalDigit) IN
  IF IsAt(msg, i, {"("}) /\ n > 0 /\ IsAt(msg, i + 1 + n, {")"}) THEN n + 2
  ELSE 0

\* \s+
reWhitespace(msg, i) == Run(msg, i, Whitespace)

MatchLen(re, msg, i) ==
  CASE re = "reDatetime" -> reDatetime(msg, i)
    [] re = "reHexAddr" -> reHexAddr(msg, i)
    [] re = "reUUID" -> reUUID(msg, i)
    [] re = "reBracketNum" -> reBracketNum(msg, i)
    [] re = "reParenNum" -> reParenNum(msg, i)
    [] re = "reWhitespace" -> reWhitespace(msg, i)

\* re.ReplaceAllString(src, repl): the matches are found from left to right,
\* each starting where the one before ended; none of the regexes matches the
\* empty string
RECURSIVE ReplaceFrom(_, _, _, _)
ReplaceFrom(re, src, repl, i) ==
  IF i > Len(src) THEN <<>>
  ELSE LET n == MatchLen(re, src, i) IN
       IF n > 0 THEN repl \o ReplaceFrom(re, src, repl, i + n)
       ELSE <<src[i]>> \o ReplaceFrom(re, src, repl, i + 1)

ReplaceAllString(re, src, repl) == ReplaceFrom(re, src, repl, 1)

\* strings.ToLower, character by character
LowerCase ==
  [c \in {"A", "B", "C", "D", "E", "F", "N", "R", "T", "U", "I", "Z"} |->
     CASE c = "A" -> "a" [] c = "B" -> "b" [] c = "C" -> "c" [] c = "D" -> "d"
       [] c = "E" -> "e" [] c = "F" -> "f" [] c = "N" -> "n" [] c = "R" -> "r"
       [] c = "T" -> "t" [] c = "U" -> "u" [] c = "I" -> "i" [] c = "Z" -> "z"]

ToLowerString(msg) ==
  [i \in 1..Len(msg) |->
     IF msg[i] \in DOMAIN LowerCase THEN LowerCase[msg[i]] ELSE msg[i]]

\* strings.TrimSpace
TrimSpace(msg) ==
  LET keep == {i \in 1..Len(msg) : msg[i] \notin Whitespace} IN
  IF keep = {} THEN <<>>
  ELSE SubSeq(msg, CHOOSE i \in keep : \A j \in keep : i <= j,
                   CHOOSE i \in keep : \A j \in keep : j <= i)

MessageMaxBytes == 500

\* truncateString of package analysis, on one-byte characters: every byte is
\* the start of a rune, the loop that steps back to a rune start does nothing
truncateMessage(s, maxBytes) ==
  IF Len(s) <= maxBytes THEN s ELSE SubSeq(s, 1, maxBytes)

NormalizeMessage(msg) ==
  LET m1 == ReplaceAllString("reDatetime", msg, <<>>)
      m2 == ReplaceAllString("reHexAddr", m1, <<"0", "x", "A", "D", "D", "R">>)
      m3 == ReplaceAllString("reUUID", m2, <<"U", "U", "I", "D">>)
      m4 == ReplaceAllString("reBracketNum", m3, <<"[", "N", "]">>)
      m5 == ReplaceAllString("reParenNum", m4, <<"(", "N", ")">>)
      m6 == ReplaceAllString("reWhitespace", m5, <<" ">>)
      m7 == ToLowerString(m6)
      m8 == TrimSpace(m7) IN
  truncateMessage(m8, MessageMaxBytes)

\* sha256.Sum256 printed with %x: the hash is taken to have no collisions,
\* so that two fingerprints are equal exactly when the normalized messages are
Fingerprint(message) == <<"sha256", NormalizeMessage(message)>>

\* The messages fingerprinted: at most MaxPieces pieces separated by single
\* spaces, each piece a timestamp, a hexadecimal address, a UUID, an
\* integer in brackets, an integer in parentheses, or a word.
Timestamps ==
  {<<"2", "0", "2", "4", "-", "0", "2", "-", "1", "7", "T",
     "0", "1", ":", "4", "7", ":", "3", "2", ".", "1", "2", "3", "Z">>,
   <<"2", "0", "2", "4", "-", "0", "2", "-", "1", "7", " ",
     "0", "2", ":", "3", "0", ":", "0", "0">>}
HexAddrs == {<<"0", "x", "1", "f">>, <<"0", "x", "F", "F", "0">>}
UUIDs ==
  {<<"5", "5", "0", "e", "8", "4", "0", "0", "-", "e", "2", "9", "b", "-",
     "4", "1", "d", "4", "-", "a", "7", "1", "6", "-",
     "4", "4", "6", "6", "5", "5", "4", "4", "0", "0", "0", "0">>,
   <<"1", "2", "3", "E", "4", "5", "6", "7", "-", "E", "8", "9", "B", "-",
     "1", "2", "D", "3", "-", "A", "4", "5", "6", "-",
     "4", "2", "6", "6", "1", "4", "1", "7", "4", "0", "0", "0">>}
BracketNums == {<<"[", "4", "2", "]">>, <<"[", "7", "]">>}
ParenNums == {<<"(", "5", "0", "0", ")">>, <<"(", "4", "2", ")">>}
Words == {<<"E", "r", "r">>}

Kinds == {"timestamp", "hex", "uuid", "bracket", "paren", "word"}

Texts(kind) ==
  CASE kind = "timestamp" -> Timestamps
    [] kind = "hex" -> HexAddrs
    [] kind = "uuid" -> UUIDs
    [] kind = "bracket" -> BracketNums
    [] kind = "paren" -> ParenNums
    [] kind = "word" -> Words

Pieces == UNION {{[kind |-> k, text |-> t] : t \in Texts(k)} : k \in Kinds}

\* two pieces that stand at the same place of two log lines of one origin:
\* the same word, or two values of the same kind
PiecePairs ==
  {pq \in Pieces \X Pieces :
     /\ pq[1].kind = pq[2].kind
     /\ pq[1].kind = "word" => pq[1] = pq[2]}

\* the message made of the pieces ps
RECURSIVE Join(_)
Join(ps) ==
  IF Len(ps) = 0 THEN <<>>
  ELSE IF Len(ps) = 1 THEN ps[1].text
  ELSE ps[1].text \o <<" ">> \o Join(Tail(ps))

\* the variables Cluster leaves alone
notNorm == <<jobs, results, cache, rpc, reqCtx, rret, tpc, upd, lastCall,
             panicked, hist, ncalls, poll, resp, reply, cvars, rvars, avars,
             lastResult, lastBatch, lastLoki>>

\* Cluster on two lines: the fingerprint of each message is computed, and
\* the lines go to one group exactly when the fingerprints are equal.
\* NormalizeMessage is applied once more to the normalized first message.
Cluster(xs, ys) ==
  LET x == Join(xs)
      y == Join(ys)
      nx == NormalizeMessage(x) IN
  /\ lastNorm' = [xs |-> xs, ys |-> ys, x |-> x, y |-> y,
                  nx |-> nx, nnx |-> NormalizeMessage(nx),
                  fx |-> Fingerprint(x), fy |-> Fingerprint(y),
                  groups |-> IF Fingerprint(x) = Fingerprint(y) THEN 1 ELSE 2]
  /\ UNCHANGED notNorm

\* one pair of lines is followed, whatever its messages
NormNext ==
  /\ lastNorm = NoMessages
  /\ \E n \in 0..MaxPieces : \E pairs \in [1..n -> PiecePairs] :
       Cluster([i \in 1..n |-> pairs[i][1]], [i \in 1..n |-> pairs[i][2]])

NormSpec == Init /\ [][NormNext]_vars

\* ------------------------------------------------ clustering a batch

\* the messages of the lines of a batch
BatchMessages == {<<"a">>, <<"b">>}

SampleMaxBytes == 2000

\* models.LogLine
LogLines ==
  [Message : BatchMessages, Level : Levels, Timestamp : {1, 2}]

\* the group of fingerprint fp after one more line: it is opened when it
\* does not exist, then count, firstSeen, lastSeen and level are updated
UpdateGroup(groups, line, fp) ==
  LET cs == IF fp \in DOMAIN groups THEN groups[fp]
            ELSE [fingerprint |-> fp, level |-> line.Level, count |-> 0,
                  firstSeen |-> line.Timestamp, lastSeen |-> line.Timestamp,
                  sampleMessage |-> truncateMessage(line.Message, SampleMaxBytes)]
      updated ==
        [cs EXCEPT
           !.count = @ + 1,
           !.firstSeen = IF line.Timestamp < @ THEN line.Timestamp ELSE @,
           !.lastSeen = IF line.Timestamp > @ THEN line.Timestamp ELSE @,
           !.level = IF LevelSeverity(line.Level) > LevelSeverity(@)
                     THEN line.Level ELSE @] IN
  [f \in DOMAIN groups \cup {fp} |-> IF f = fp THEN updated ELSE groups[f]]

\* the body of the loop over the lines: the line goes to the group of the
\* fingerprint of its message
AddLine(groups, line) == UpdateGroup(groups, line, Fingerprint(line.Message))

\* for _, line := range lines { ... }
RECURSIVE GroupLines(_, _)
GroupLines(lines, groups) ==
  IF lines = <<>> THEN groups
  ELSE GroupLines(Tail(lines), AddLine(groups, Head(lines)))

\* the models.ErrorCluster made of a group (its ID, a fresh random UUID, is
\* left out)
ErrorClusterOf(cs, service, namespace) ==
  [Service |-> service, Namespace |-> namespace, Fingerprint |-> cs.fingerprint,
   Level |-> cs.level, FirstSeenAt |-> cs.firstSeen, LastSeenAt |-> cs.lastSeen,
   Count |-> cs.count, SampleMessage |-> cs.sampleMessage]

\* the less function handed to sort.Slice
Less_countOnly(a, b) == a.Count > b.Count
Less(a, b) ==
  IF a.Count # b.Count THEN a.Count > b.Count
  ELSE LevelSeverity(a.Level) > LevelSeverity(b.Level)

\* sort.Slice of the elements of a set appended in any order (the order of
\* iteration over a map is not specified, the sort is not stable): the
\* orders in which no element is less than one standing before it
SortSlice(elems) ==
  {out \in [1..Cardinality(elems) -> elems] :
     /\ \A e \in elems : \E i \in DOMAIN out : out[i] = e
     /\ \A i, j \in DOMAIN out : i < j => ~Less(out[j], out[i])}

\* the variables Cluster leaves alone in this view
notBatch == <<jobs, results, cache, rpc, reqCtx, rret, tpc, upd, lastCall,
              panicked, hist, ncalls, poll, resp, reply, cvars, rvars, avars,
              lastResult, lastNorm, lastLoki>>

\* Cluster(lines, service, namespace): an empty batch gives the empty
\* slice; otherwise the lines are grouped by fingerprint, one cluster is made
\* of each group and the clusters are sorted
ClusterBatch(lines, service, namespace) ==
  /\ IF Len(lines) = 0
     THEN lastBatch' = [lines |-> lines, clusters |-> <<>>, made |-> TRUE]
     ELSE LET groups == GroupLines(lines, [f \in {} |-> 0])
              elems == {ErrorClusterOf(groups[f], service, namespace) :
                          f \in DOMAIN groups} IN
          \E out \in SortSlice(elems) :
            lastBatch' = [lines |-> lines, clusters |-> out, made |-> TRUE]
  /\ UNCHANGED notBatch

\* one batch is followed, whatever its lines
BatchNext ==
  /\ ~lastBatch.made
  /\ \E n \in 0..MaxLines : \E lines \in [1..n -> LogLines] :
       ClusterBatch(lines, Service, Namespace)

BatchSpec == Init /\ [][BatchNext]_vars

\* ------------------------------------------- the log backend client

ErrLokiQueryError == "loki query error"
ErrLokiTimeout == "loki query timeout"

\* An error is the set of the errors errors.Is finds in its chain, with what
\* errors.As finds: a net.Error, whether its Timeout() is true, a
\* *net.OpError. The nil error is Nil.
Nil == [nil |-> TRUE, is |-> {}, netError |-> FALSE, timeout |-> FALSE,
        opError |-> FALSE]
NewError(is, netError, timeout, opError) ==
  [nil |-> FALSE, is |-> is, netError |-> netError, timeout |-> timeout,
   opError |-> opError]

\* fmt.Errorf("%w: ...", sentinel, ...): the sentinel is wrapped, the
\* arguments printed with %v and %d are text
Sentinel(e) == NewError({e}, FALSE, FALSE, FALSE)

\* fmt.Errorf("...: %w", err): err is wrapped
Wrap(err) == err

\* the errors http.Client.Do returns (a *url.Error, which is a net.Error):
\* the context's deadline passed, the context was cancelled, the client's
\* Timeout passed, the connection failed; and, for classifyError, an error
\* that is no net.Error
TransportErrors ==
  {NewError({"context.DeadlineExceeded"}, TRUE, TRUE, FALSE),
   NewError({"context.Canceled"}, TRUE, FALSE, FALSE),
   NewError({}, TRUE, TRUE, FALSE),
   NewError({}, TRUE, FALSE, TRUE),
   NewError({}, FALSE, FALSE, FALSE)}

\* the error of http.NewRequestWithContext for a base URL that does not parse
ErrParse == NewError({"url.Error"}, FALSE, FALSE, FALSE)

\* the error of json.Decoder.Decode for a body that is not the expected JSON
ErrSyntax == NewError({"json.SyntaxError"}, FALSE, FALSE, FALSE)

\* what the configuration and the backend do to a call: whether the base URL
\* parses, the error of the round trip (Nil when a response arrives), the
\* status of the response and whether its body decodes
Environments ==
  [baseURL : {"ok", "bad"}, do : {Nil} \cup TransportErrors,
   status : {200, 204, 400, 500}, body : {"json", "garbage"}]

classifyError(err) ==
  IF "context.DeadlineExceeded" \in err.is \/ "context.Canceled" \in err.is
  THEN Sentinel(ErrLokiTimeout)
  ELSE IF err.netError
  THEN (IF err.timeout THEN Sentinel(ErrLokiTimeout)
        ELSE Sentinel(ErrLokiUnreachable))
  ELSE IF err.opError THEN Sentinel(ErrLokiUnreachable)
  ELSE Sentinel(ErrLokiUnreachable)

\* the parameters of the query_range request
Params(req) ==
  [query |-> req.Query,
   direction |-> IF req.Direction = "" THEN "backward" ELSE req.Direction,
   limit |-> IF req.Limit > 0 THEN req.Limit ELSE 0]

QueryRangeRequests ==
  [Query : {"{service=\"api\"}"}, Direction : {"", "forward", "backward"},
   Limit : {0, 100}]

\* the variables the client leaves alone
notLoki == <<jobs, results, cache, rpc, reqCtx, rret, tpc, upd, lastCall,
             panicked, hist, ncalls, poll, resp, reply, cvars, rvars, avars,
             lastResult, lastNorm, lastBatch>>

\* QueryRange, Labels and LabelValues: the request is built, sent, and the
\* body of a 200 response decoded
Fetch(op, sent, env) ==
  /\ lastLoki' =
       IF env.baseURL = "bad"
       THEN [op |-> op, env |-> env, sent |-> <<>>, err |-> Wrap(ErrParse)]
       ELSE IF ~env.do.nil
       THEN [op |-> op, env |-> env, sent |-> sent, err |-> classifyError(env.do)]
       ELSE IF env.status # 200
       THEN [op |-> op, env |-> env, sent |-> sent,
             err |-> Sentinel(ErrLokiQueryError)]
       ELSE IF env.body # "json"
       THEN [op |-> op, env |-> env, sent |-> sent, err |-> Wrap(ErrSyntax)]
       ELSE [op |-> op, env |-> env, sent |-> sent, err |-> Nil]
  /\ UNCHANGED notLoki

QueryRange(req, env) == Fetch("query_range", <<"query_range", Params(req)>>, env)

Labels(env) == Fetch("labels", <<"labels">>, env)

LabelValues(label, env) == Fetch("label_values", <<"label", label, "values">>, env)

\* Ready: the request is built and sent; the response has to be a 200
Ready(env) ==
  /\ lastLoki' =
       IF env.baseURL = "bad"
       THEN [op |-> "ready", env |-> env, sent |-> <<>>, err |-> Wrap(ErrParse)]
       ELSE IF ~env.do.nil
       THEN [op |-> "ready", env |-> env, sent |-> <<"ready">>,
             err |-> Sentinel(ErrLokiUnreachable)]
       ELSE IF env.status # 200
       THEN [op |-> "ready", env |-> env, sent |-> <<"ready">>,
             err |-> Sentinel(ErrLokiUnreachable)]
       ELSE [op |-> "ready", env |-> env, sent |-> <<"ready">>, err |-> Nil]
  /\ UNCHANGED notLoki

\* one call is followed, whatever the backend does
LokiNext ==
  /\ lastLoki = NoLokiCall
  /\ \E env \in Environments :
       \/ \E req \in QueryRangeRequests : QueryRange(req, env)
       \/ Labels(env)
       \/ \E label \in {"level", "service"} : LabelValues(label, env)
       \/ Ready(env)

LokiSpec == Init /\ [][LokiNext]_vars

\* =============================================================== claims

Terminal == {JobStatusCompleted, JobStatusFailed}

\* the transitions of the job state machine, as the specification lists them
AllowedPairs == {<<"pending", "running">>, <<"running", "completed">>,
                 <<"running", "failed">>}

\* C1: every change of a job's stored status is pending->running,
\* running->completed or running->failed; in particular a terminal status
\* never changes. (Stated for StoreSpec: any interleaving of update calls.)
C1_ObservedTransitions ==
  [][\A j \in DOMAIN jobs :
       jobs'[j].status # jobs[j].status =>
         <<jobs[j].status, jobs'[j].status>> \in AllowedPairs]_vars

\* C2: concurrent UpdateJobStatus calls on one job behave as if serialized:
\* of the calls that read running and ask for a terminal status, at most one
\* succeeds.
C2_AtMostOneTerminalUpdate == \A j \in JobIds : terminalOk[j] <= 1

\* C3: a job whose trigger call succeeded ends with a terminal stored status:
\* once its background task has finished, the stored status is completed or
\* failed, whatever the outcomes of the task's calls.
C3_TaskClosesJob ==
  \A j \in JobIds :
    tpc[j] = "done" => j \in DOMAIN jobs /\ jobs[j].status \in Terminal

\* C4: whenever the task is about to write a status value to the cache, its
\* store update for that status value has already returned.
C4_StoreBeforeCache ==
  \A j \in JobIds : tpc[j] \in CacheLocs => StatusAt(tpc[j]) \in storeRet[j]

C4_Witness ==
  \E j \in JobIds :
    /\ tpc[j] = "recover_cache_failed"
    /\ panicked[j]
    /\ JobStatusFailed \in storeRet[j]

\* C5: after a panic in the background task, the finished task leaves the
\* stored status failed with an error message beginning with "panic:" and the
\* cached status failed.
C5_PanicRecordedAsFailed ==
  \A j \in JobIds :
    (panicked[j] /\ tpc[j] = "done") =>
      /\ jobs[j].status = JobStatusFailed
      /\ HasPrefix(jobs[j].error_message, "panic: ")
      /\ cache[j] = JobStatusFailed

\* C6: no two persisted analysis results share a job_id.
C6_OneResultPerJob ==
  \A a \in results : \A b \in results : a.job_id = b.job_id => a = b

C6_Witness ==
  /\ lastCall.ret = "unique_violation"
  /\ Cardinality({row \in results : row.job_id = lastCall.id}) = 1

\* C7 as claimed: a successful trigger call has persisted the job as pending
\* and has mirrored pending into the cache.
C7_MirrorsPending ==
  \A r \in JobIds :
    (rpc[r] = "returned" /\ rret[r].ok) =>
      /\ statusLog[r] # <<>> /\ statusLog[r][1] = JobStatusPending
      /\ cacheLog[r] # <<>> /\ cacheLog[r][1] = JobStatusPending

\* C7 (amended): a successful trigger call has persisted the job as pending,
\* has issued the cache write of pending (pending is the first value in the
\* cache entry when that write succeeded), returns the pending job, and its
\* return is enabled whatever the position of the background task.
C7_TriggerReturnsWithoutWaiting ==
  \A r \in JobIds :
    /\ rpc[r] = "return" =>
         /\ statusLog[r] # <<>> /\ statusLog[r][1] = JobStatusPending
         /\ mirror[r] \in {"ok", "err"}
         /\ mirror[r] = "ok" => (cacheLog[r] # <<>> /\ cacheLog[r][1] = JobStatusPending)
         /\ ENABLED TriggerReturn(r)
    /\ (rpc[r] = "returned" /\ rret[r].ok) =>
         /\ rret[r] = [ok |-> TRUE, id |-> r, status |-> JobStatusPending]
         /\ r \in DOMAIN jobs
         /\ mirror[r] \in {"ok", "err"}

C7_Witness ==
  \E r \in JobIds :
    /\ rpc[r] = "returned" /\ rret[r].ok
    /\ tpc[r] = "store_running" /\ upd[T(r)].phase = "idle"
    /\ jobs[r].status = JobStatusPending
    /\ cache[r] = JobStatusPending

\* the call sites of the task on which no collaborator call has failed
SuccessPath == {"store_running", "cache_running", "query_range", "analyze",
                "create_result", "store_completed", "cache_completed", "done"}

\* C8: after the triggering request's context is cancelled, the task goes on
\* as the outcomes of its own calls determine: while none of them failed it
\* stays on the success path, and it finishes with the job completed and its
\* result persisted.
C8_TaskIgnoresRequestCancel ==
  \A j \in JobIds :
    (reqCtx[j] = "cancelled" /\ allOk[j]) =>
      /\ tpc[j] \in SuccessPath
      /\ tpc[j] = "done" =>
           /\ jobs[j].status = JobStatusCompleted
           /\ \E row \in results : row.job_id = j

C8_Witness ==
  \E j \in JobIds :
    /\ reqCtx[j] = "cancelled" /\ allOk[j] /\ tpc[j] = "done"
    /\ jobs[j].status = JobStatusCompleted

\* C9: an UpdateJobStatus call that read a current status from which the
\* requested status is not an allowed transition returns the
\* invalid-transition error and changes no column of any job.
C9_InvalidTransitionRejected ==
  [][(/\ lastCall' # lastCall
      /\ lastCall'.cur \in Statuses
      /\ <<lastCall'.cur, lastCall'.status>> \notin AllowedPairs)
     => (lastCall'.ret = "invalid" /\ jobs' = jobs)]_vars

C9_Witness ==
  /\ lastCall.ret = "invalid"
  /\ lastCall.cur = JobStatusCompleted
  /\ lastCall.status = JobStatusFailed
  /\ jobs[lastCall.id].status = JobStatusCompleted
  /\ jobs[lastCall.id].error_message = NoMessage

TaskDone(j) == tpc[j] = "done"

\* C11: when the log-backend query, the provider call and the persistence of
\* the result all succeeded, the finished task has taken the stored status
\* through exactly pending, running, completed; and whenever the stored
\* status is completed an analysis result of the job exists.
C11_SuccessfulRun ==
  /\ \A j \in JobIds :
       (/\ TaskDone(j)
        /\ outcome[j].query_range = "ok"
        /\ outcome[j].analyze = "ok"
        /\ outcome[j].create_result = "ok")
       => statusLog[j] = <<JobStatusPending, JobStatusRunning, JobStatusCompleted>>
  /\ \A j \in DOMAIN jobs :
       jobs[j].status = JobStatusCompleted => \E row \in results : row.job_id = j

\* C12: when provider.Analyze returned an error, the finished task leaves the
\* stored status failed with the provider error's message, the cached status
\* failed, and no analysis result of the job.
C12_ProviderErrorFails ==
  \A j \in JobIds :
    (TaskDone(j) /\ outcome[j].analyze = "err") =>
      /\ jobs[j].status = JobStatusFailed
      /\ jobs[j].error_message = <<ErrProviderUnavailable>>
      /\ cache[j] = JobStatusFailed
      /\ \A row \in results : row.job_id # j

\* C13: when the log-backend range query returned an error, the finished
\* task leaves the stored status failed with the backend error's message, and
\* the provider was never invoked for the job.
C13_BackendErrorFails ==
  \A j \in JobIds :
    (TaskDone(j) /\ outcome[j].query_range = "err") =>
      /\ jobs[j].status = JobStatusFailed
      /\ jobs[j].error_message = <<ErrLokiUnreachable>>
      /\ outcome[j].analyze = "none"

\* C14: a store read made on behalf of tenant T that returns a row returns a
\* row whose tenant_id is T, after any writes by any tenants.
C14_TenantIsolation ==
  (reply.op # "none" /\ reply.err = "none") => reply.row.tenant_id = reply.caller

\* the job polled last does not exist, or belongs to another tenant than the
\* credential that polled it
NotOwned == resp.id \notin DOMAIN jobs \/ jobs[resp.id].tenant_id # resp.tenant

\* C15: a poll of a job that belongs to another tenant is answered 404
\* JOB_NOT_FOUND whatever the job's status, with the very response given for
\* an identifier under which no job exists.
C15_ForeignPollNotFound ==
  (resp.tenant \in Tenants /\ NotOwned) => resp.out = NotFoundResponse

C15_Witness ==
  /\ resp.tenant \in Tenants
  /\ resp.id \in DOMAIN jobs
  /\ jobs[resp.id].tenant_id # resp.tenant
  /\ jobs[resp.id].status = JobStatusCompleted
  /\ \E row \in results : row.job_id = resp.id
  /\ resp.out = NotFoundResponse

\* C16: a poll response that contains a result has status completed.
C16_ResultOnlyWhenCompleted ==
  (resp.out.code = StatusOK /\ resp.out.result # NoResult)
    => resp.out.status = JobStatusCompleted

C16_Witness ==
  /\ resp.out.code = StatusOK
  /\ resp.out.result # NoResult
  /\ resp.out.status = JobStatusCompleted

\* the rows of error_clusters under unique key k
RowsOf(k) == {row \in clusters : KeyOf(row) = k}

\* C17: after the upserts made under one (tenant, service, namespace,
\* fingerprint), in any order, exactly one row exists under that key, its
\* count is the sum of the contributed counts and its last_seen_at the
\* latest contributed last_seen_at.
C17_UpsertMerges ==
  \A k \in ClusterKeys :
    contrib[k].n > 0 =>
      /\ Cardinality(RowsOf(k)) = 1
      /\ \A row \in RowsOf(k) :
           /\ row.count = contrib[k].count
           /\ row.last_seen_at = contrib[k].last_seen_at

\* C18: every upsert returns the row with the identifier assigned by the
\* first insert under its key and with the sum of the counts contributed so
\* far.
C18_UpsertReturnsCanonicalRow ==
  (lastUpsert.db = "ok" /\ lastUpsert.valid) =>
    /\ lastUpsert.err = "none"
    /\ lastUpsert.row.id = contrib[lastUpsert.key].id
    /\ lastUpsert.row.count = contrib[lastUpsert.key].count

\* C19: the stored level of a cluster is a level of the highest severity
\* among the levels contributed to it.
C19_HighestSeverityLevel ==
  \A k \in ClusterKeys :
    contrib[k].n > 0 =>
      \E row \in RowsOf(k) :
        \A level \in contrib[k].levels :
          LevelSeverity(row.level) >= LevelSeverity(level)

\* C20: with limit L and no expiry of the counter in between, the k-th
\* request of a credential is accepted with X-RateLimit-Remaining = L - k
\* when k <= L, and is rejected with 429 and Retry-After: 60 without
\* reaching the handler when k > L.
C20_RateLimitBoundary ==
  lastLimit.k > 0 =>
    IF lastLimit.k <= RequestsPerMin
    THEN /\ lastLimit.handler
         /\ lastLimit.status = StatusOK
         /\ "X-RateLimit-Remaining" \in DOMAIN lastLimit.headers
         /\ lastLimit.headers["X-RateLimit-Remaining"] = Itoa(RequestsPerMin - lastLimit.k)
    ELSE /\ ~lastLimit.handler
         /\ lastLimit.status = StatusTooManyRequests
         /\ "Retry-After" \in DOMAIN lastLimit.headers
         /\ lastLimit.headers["Retry-After"] = <<"6", "0">>

\* C21: a request is answered 429 only if its credential made more than
\* RequestsPerMin requests within the minute ending at that request (the
\* request itself included), so requests older than a minute never count.
C21_SlidingWindow ==
  (lastLimit.status = StatusTooManyRequests /\ lastLimit.at = now) =>
    Len(Recent(stamps[lastLimit.cred], now)) > RequestsPerMin

Returned23(log) == SelectSeq(log, LAMBDA e : e.c = "ok")

\* C23: the calls on one key between two expiries that return a value return
\* pairwise different values; when all n of them return a value, the i-th
\* returns i, so each of 1..n is returned exactly once; and every call that
\* is applied sets the key's time to live to the expiry passed (a minute).
C23_IncrAtomic ==
  /\ \A p \in Prefixes :
       LET log == incrLog[p]
           ret == Returned23(log) IN
       /\ \A i, j \in 1..Len(ret) : i # j => ret[i].val # ret[j].val
       /\ Len(ret) = Len(log) => \A i \in 1..Len(log) : log[i].val = i
  /\ (lastLimit.incr \in {"ok", "err_applied"} /\ lastLimit.at = now) =>
       expiry[KeyPrefix(lastLimit.cred)] = now + Minute

\* three calls on one key made for two credentials, all returning a value,
\* the last one made after the clock advanced
C23_Witness ==
  \E p \in Prefixes :
    /\ Len(incrLog[p]) = 3
    /\ \A i \in 1..3 : incrLog[p][i].c = "ok"
    /\ \E a, b \in Creds : a # b /\ KeyPrefix(a) = p /\ KeyPrefix(b) = p
                             /\ seen[a] > 0 /\ seen[b] > 0
    /\ now > 0 /\ lastLimit.at = now /\ KeyPrefix(lastLimit.cred) = p

\* the request served last carries no bearer token
NoBearerToken == ToLower[lastReq.header.scheme] # "bearer" \/ lastReq.header.token = <<>>

\* the credentials that are not revoked and whose stored hash is the hash of
\* the token of the request served last
ActiveMatches ==
  {k \in apiKeys : k.deleted_at = NULL /\ k.key_hash = Bcrypt(lastReq.header.token)}

\* the token of the request served last is absent, shorter than 8
\* characters, or the token of no credential that is not revoked
BadToken ==
  \/ NoBearerToken
  \/ Len(lastReq.header.token) < 8
  \/ ActiveMatches = {}

\* C24 as stated: a request whose bearer token is absent, shorter than 8
\* characters or the token of no non-revoked credential is answered 401
\* INVALID_TOKEN and reaches neither the rate limiter nor the handler.
C24_Unauthorized ==
  (lastReq.route # "none" /\ BadToken) =>
    /\ lastReq.status = StatusUnauthorized
    /\ lastReq.code = "INVALID_TOKEN"
    /\ ~lastReq.limiter
    /\ ~lastReq.handler

\* C24, amended: such a request reaches neither the rate limiter nor the
\* handler; it is answered 401 INVALID_TOKEN, except that a token of at
\* least 8 characters is answered 500 INTERNAL_ERROR when the lookup of the
\* credentials with its prefix fails.
C24_Rejected ==
  (lastReq.route # "none" /\ BadToken) =>
    /\ ~lastReq.limiter
    /\ ~lastReq.handler
    /\ IF lastReq.lookup = "err"
       THEN /\ lastReq.status = StatusInternalServerError
            /\ lastReq.code = "INTERNAL_ERROR"
            /\ ~NoBearerToken /\ Len(lastReq.header.token) >= 8
       ELSE /\ lastReq.status = StatusUnauthorized
            /\ lastReq.code = "INVALID_TOKEN"

\* a token that is not issued, with the prefix of a credential that is not
\* revoked, is answered 401 after the lookup
C24_Witness ==
  /\ lastReq.route # "none" /\ ~NoBearerToken
  /\ Len(lastReq.header.token) >= 8
  /\ ActiveMatches = {}
  /\ \E k \in apiKeys : k.deleted_at = NULL
                          /\ k.key_prefix = KeyPrefix(lastReq.header.token)
  /\ lastReq.lookup = "ok"
  /\ lastReq.status = StatusUnauthorized

\* the credentials whose revocation succeeded and whose token the request
\* served last bears
RevokedBearer ==
  {k \in apiKeys : /\ k.id \in revokedOk
                    /\ ~NoBearerToken
                    /\ k.key_hash = Bcrypt(lastReq.header.token)}

\* C25 as stated: every request made after the successful revocation of a
\* credential and bearing its token is answered 401, and the credential
\* stays revoked.
C25_RevokedUnauthorized ==
  /\ \A k \in apiKeys : k.id \in revokedOk => k.deleted_at # NULL
  /\ (lastReq.route # "none" /\ RevokedBearer # {}) =>
       lastReq.status = StatusUnauthorized /\ ~lastReq.handler

\* C25, amended: such a request is never authenticated (it reaches neither
\* the rate limiter nor the handler) and is answered 401, or 500 when the
\* lookup of the credentials fails; and the credential stays revoked.
C25_RevokedRejected ==
  /\ \A k \in apiKeys : k.id \in revokedOk => k.deleted_at # NULL
  /\ (lastReq.route # "none" /\ RevokedBearer # {}) =>
       /\ ~lastReq.limiter
       /\ ~lastReq.handler
       /\ lastReq.status =
            IF lastReq.lookup = "err" THEN StatusInternalServerError
            ELSE StatusUnauthorized

\* a request bearing the token of a revoked credential, answered 401 after
\* the lookup
C25_Witness ==
  /\ lastReq.route # "none"
  /\ RevokedBearer # {}
  /\ lastReq.lookup = "ok"
  /\ lastReq.status = StatusUnauthorized

\* no credential has this id, or the credential with this id belongs to
\* another tenant, or it is revoked already
NothingToRevoke(id, tenantID) ==
  \/ ~\E k \in apiKeys : k.id = id
  \/ \E k \in apiKeys : k.id = id /\ k.tenant_id # tenantID
  \/ \E k \in apiKeys : k.id = id /\ k.deleted_at # NULL

\* C26: a revoke(id, tenant) that the database executes when id does not
\* exist, belongs to another tenant or is revoked already returns not_found
\* and leaves the table as it was.
C26_RevokeNotFound ==
  [][\A id \in KeyIds, tenantID \in Tenants :
       (RevokeAPIKey(id, tenantID, "ok") /\ NothingToRevoke(id, tenantID)) =>
         (lastKeyOp'.err = ErrNotFound /\ apiKeys' = apiKeys)]_vars

\* the second revoke of a credential returned not_found
C26_Witness ==
  /\ lastKeyOp.op = "revoke"
  /\ lastKeyOp.db = "ok"
  /\ lastKeyOp.id \in revokedOk
  /\ \E k \in apiKeys : k.id = lastKeyOp.id /\ k.tenant_id = lastKeyOp.tenant
  /\ lastKeyOp.err = ErrNotFound

\* the request served last was authenticated with a credential without the
\* admin scope and went to a credential-management route
NonAdminOnAdminRoute ==
  /\ lastReq.route \in AdminRoutes
  /\ lastReq.key # 0
  /\ \E k \in apiKeys : k.id = lastReq.key /\ "admin" \notin k.scopes

\* C27 as stated: a request to a credential-management route authenticated
\* with a credential without the admin scope is answered 403 FORBIDDEN and
\* its handler is not invoked.
C27_Forbidden ==
  NonAdminOnAdminRoute =>
    /\ lastReq.status = StatusForbidden
    /\ lastReq.code = "FORBIDDEN"
    /\ ~lastReq.handler

\* C27, amended: the handler is not invoked; the request is answered 403
\* FORBIDDEN unless the rate limiter, which runs before the scope check,
\* rejects it with 429.
C27_NotInvoked ==
  NonAdminOnAdminRoute =>
    /\ ~lastReq.handler
    /\ IF lastLimit.status = StatusTooManyRequests
       THEN lastReq.status = StatusTooManyRequests
       ELSE lastReq.status = StatusForbidden /\ lastReq.code = "FORBIDDEN"

\* a request to the revoke route by a credential without the admin scope,
\* answered 403
C27_Witness ==
  /\ NonAdminOnAdminRoute
  /\ lastReq.route = "DELETE /api/v1/admin/keys/{keyID}"
  /\ lastReq.status = StatusForbidden

\* a byte sequence is well-formed UTF-8: every lead byte is followed by its
\* continuation bytes, and no continuation byte stands elsewhere
RECURSIVE WellFormed(_)
WellFormed(bytes) ==
  IF bytes = <<>> THEN TRUE
  ELSE LET n == CASE bytes[1] = "a" -> 1 [] bytes[1] = "L2" -> 2
                  [] bytes[1] = "L3" -> 3 [] bytes[1] = "L4" -> 4
                  [] OTHER -> 0 IN
       /\ n > 0
       /\ Len(bytes) >= n
       /\ \A i \in 2..n : bytes[i] = "c"
       /\ WellFormed(SubSeq(bytes, n + 1, Len(bytes)))

\* kept is what is left of whole after a truncation to at most limit bytes
\* that ends at a character boundary: a prefix of whole, not followed in
\* whole by a continuation byte, and well-formed when whole is
TruncatedAtBoundary(kept, whole, limit) ==
  /\ ByteLen(kept) <= limit
  /\ kept = Slice(whole, ByteLen(kept))
  /\ ByteLen(kept) < ByteLen(whole) =>
       (ByteLen(kept) = 0 \/ ByteAt(whole, ByteLen(kept)) # "c")
  /\ WellFormed(whole.tail) => WellFormed(kept.tail)

\* C28: every persisted result has a confidence between 0 and 1, a root
\* cause of at most 4000 bytes and a summary of at most 2000 bytes, each the
\* provider's text cut at a UTF-8 character boundary, whatever the provider
\* returned.
C28_PersistedWithinBounds ==
  \A row \in lastResult.rows :
    /\ ~row.confidence.nan
    /\ 0 <= row.confidence.v /\ row.confidence.v <= 2
    /\ TruncatedAtBoundary(row.root_cause, lastResult.provided.root_cause, 4000)
    /\ TruncatedAtBoundary(row.summary, lastResult.provided.summary, 2000)

\* a persisted result whose confidence was clamped and whose two texts were
\* cut inside a character of several bytes
C28_Witness ==
  \E row \in lastResult.rows :
    /\ lastResult.provided.confidence.v > 2
    /\ ByteLen(lastResult.provided.root_cause) > 4000
    /\ ByteLen(row.root_cause) < 4000
    /\ ByteLen(lastResult.provided.summary) > 2000
    /\ ByteLen(row.summary) < 2000
    /\ WellFormed(lastResult.provided.root_cause.tail)


\* C29: normalization is idempotent: the normalized form of a normalized
\* message is that normalized message.
C29_Idempotent == lastNorm.nnx = lastNorm.nx

\* the two messages differ at most in their timestamps, hexadecimal
\* addresses, UUIDs and bracketed integers
DifferOnlyInVolatile ==
  /\ Len(lastNorm.xs) = Len(lastNorm.ys)
  /\ \A i \in 1..Len(lastNorm.xs) :
       /\ lastNorm.xs[i].kind = lastNorm.ys[i].kind
       /\ lastNorm.xs[i].kind = "word" => lastNorm.xs[i] = lastNorm.ys[i]

SameTimestampsInside ==
  \A i \in 2..Len(lastNorm.xs) :
    lastNorm.xs[i].kind = "timestamp" => lastNorm.xs[i] = lastNorm.ys[i]

NotBefore(a, b) ==
  \/ a.Count > b.Count
  \/ a.Count = b.Count /\ LevelSeverity(a.Level) >= LevelSeverity(b.Level)

\* C31: the sequence returned by clustering is sorted non-increasingly by
\* (count, severity): each cluster has a larger count than the one after it,
\* or the same count and at least its severity; an empty batch yields an
\* empty sequence.
C31_SortedByCountSeverity ==
  lastBatch.made =>
    /\ \A i \in 1..(Len(lastBatch.clusters) - 1) :
         NotBefore(lastBatch.clusters[i], lastBatch.clusters[i + 1])
    /\ Len(lastBatch.lines) = 0 => lastBatch.clusters = <<>>

C31_Witness ==
  /\ lastBatch.made
  /\ Len(lastBatch.clusters) = 2
  /\ lastBatch.clusters[1].Count = lastBatch.clusters[2].Count
  /\ LevelSeverity(lastBatch.clusters[1].Level) >
       LevelSeverity(lastBatch.clusters[2].Level)
  /\ lastBatch.lines[1].Level = lastBatch.clusters[2].Level

\* the kinds of the error taxonomy an error belongs to
KindsOf(err) == err.is \cap {ErrLokiUnreachable, ErrLokiTimeout, ErrLokiQueryError}

\* C32: every error returned by a log-backend client operation is classified
\* as exactly one of unreachable, timeout or query_error, whatever the cause
\* of the failure (request construction, connection failure, deadline or
\* cancellation, non-2xx status, undecodable body).
C32_ErrorsClassified ==
  lastLoki # NoLokiCall /\ ~lastLoki.err.nil =>
    Cardinality(KindsOf(lastLoki.err)) = 1

\* C33: whenever the cached status of a job is completed or failed, the
\* stored status of the job is that same terminal status, also in the
\* executions in which a store status update returns an error.
C33_CacheTerminalImpliesStore ==
  \A j \in JobIds :
    cache[j] \in Terminal => j \in DOMAIN jobs /\ jobs[j].status = cache[j]

Rank(status) ==
  CASE status = JobStatusPending -> 0
    [] status = JobStatusRunning -> 1
    [] OTHER -> 2

\* C35: the values written to the cached status of a job follow the order
\* pending, running, one terminal value: pending is never written after
\* running or a terminal value, no value is written after a terminal value,
\* and when every write succeeded the values written are exactly pending,
\* running and one terminal value.
C35_CacheWriteOrder ==
  \A j \in JobIds :
    /\ \A i, k \in 1..Len(cacheLog[j]) :
         i < k => Rank(cacheLog[j][i]) < Rank(cacheLog[j][k])
    /\ tpc[j] = "done" /\ allOk[j] /\ mirror[j] = "ok" =>
         /\ Len(cacheLog[j]) = 3
         /\ cacheLog[j][3] \in Terminal

C35_Witness ==
  \E j \in JobIds :
    /\ tpc[j] = "done"
    /\ panicked[j]
    /\ cacheLog[j] = <<JobStatusPending, JobStatusRunning, JobStatusFailed>>

\* C36: a trigger call that returns an error (persisting the job failed, or
\* the cluster identifier is nil) has created no job, written nothing to the
\* cache and started no background task.
C36_FailedTriggerHasNoEffect ==
  \A r \in JobIds :
    rpc[r] = "returned" /\ ~rret[r].ok =>
      /\ r \notin DOMAIN jobs
      /\ cache[r] = "none" /\ cacheLog[r] = <<>>
      /\ tpc[r] = "idle"
      /\ \A row \in results : row.job_id # r

C36_Witness ==
  \E r \in JobIds :
    /\ rpc[r] = "returned" /\ ~rret[r].ok
    /\ mirror[r] = "none"
    /\ r \notin DOMAIN jobs /\ tpc[r] = "idle"

\* C37: a request made with one credential changes neither the rate-limit
\* count nor the remaining quota that any other credential observes, two
\* credentials whose tokens begin with the same 8 characters included: the
\* count the next request of the other credential is answered from stays
\* what it was.
C37_CredentialIsolation ==
  [][\A a \in Creds :
       (nreq' = nreq + 1 /\ lastLimit'.cred = a) =>
         \A b \in Creds \ {a} :
           /\ counters'[KeyPrefix(b)] = counters[KeyPrefix(b)]
           /\ Remaining(counters'[KeyPrefix(b)] + 1) =
                Remaining(counters[KeyPrefix(b)] + 1)]_vars

\* C38: a credential that was rejected with 429 and then sent no request for
\* at least 60 seconds has its next request accepted, with
\* X-RateLimit-Remaining = limit - 1.
C38_AcceptedAfterSilence ==
  [][\A a \in Creds :
       (/\ nreq' = nreq + 1 /\ lastLimit'.cred = a
        /\ answered[a].status = StatusTooManyRequests
        /\ answered[a].at + Minute <= now) =>
         /\ lastLimit'.handler
         /\ lastLimit'.status = StatusOK
         /\ "X-RateLimit-Remaining" \in DOMAIN lastLimit'.headers
         /\ lastLimit'.headers["X-RateLimit-Remaining"] = Itoa(RequestsPerMin - 1)]_vars
\* C39: CreateAPIKey returns the duplicate error only when a credential that is
\* not revoked holds the same tenant and name; so after a credential has been
\* revoked, a credential of the same tenant and name can be created again.
C39_DuplicateOnlyAmongLive ==
  [][(/\ nkeyops' = nkeyops + 1
      /\ lastKeyOp'.op = "create"
      /\ lastKeyOp'.err = ErrDuplicateKey) =>
        \E k \in apiKeys : /\ k.tenant_id = lastKeyOp'.tenant
                           /\ k.name = lastKeyOp'.name
                           /\ k.deleted_at = NULL]_vars

\* C40: after the upserts made under one (tenant, service, namespace,
\* fingerprint), the stored first_seen_at of the cluster is the earliest
\* first_seen_at contributed to it and is not later than its last_seen_at.
C40_FirstSeenIsEarliest ==
  \A k \in ClusterKeys :
    contrib[k].n > 0 =>
      \E row \in RowsOf(k) :
        /\ row.first_seen_at = contrib[k].first_seen_at
        /\ row.first_seen_at <= row.last_seen_at

====
